---- MODULE Spec2Model ----
(***************************************************************************)
(* ClawChat: the encrypted messaging session engine.                       *)
(*                                                                         *)
(* The module models the parts of the client and checks the properties     *)
(* the design document states about them:                                  *)
(*   - the chat store and the facade's Timeline listener  (SpecStore)      *)
(*   - CryptoManager.encryptMessage and its room sessions (SpecCrypto,     *)
(*     SpecCryptoSeq)                                                      *)
(*   - ClawChatClient.getOrCreateBotRoom                  (SpecRooms)      *)
(*   - ClawChatClient login / restoreSession / logout     (SpecSession)    *)
(*   - the store's sends over the facade                  (SpecFacade)     *)
(*   - the auth store over the facade                     (SpecAuth)       *)
(*   - room summaries in the chat store                   (SpecSummary)    *)
(*   - CryptoManager's device trust and device identity   (SpecTrust,      *)
(*     SpecIdentity)                                                       *)
(*   - logout racing a login, and the wait for PREPARED   (SpecAuthRace,   *)
(*     SpecSync)                                                           *)
(*   - sends interleaved with device verification         (SpecRotation)   *)
(*   - a failing key distribution                         (SpecShareFail)  *)
(*   - the search store                                   (SpecSearch)     *)
(*   - the bots' conversation memory                      (SpecBot)        *)
(* Every async function is split at its awaits: one action runs from one   *)
(* suspension point to the next, as the JavaScript event loop does.        *)
(***************************************************************************)
EXTENDS Integers, Sequences, FiniteSets, TLC

(***************************************************************************)
(* Bounds                                                                  *)
(***************************************************************************)
MaxEvents == 3
MaxInFlight == 1
MaxLoads == 1
MaxInits == 1
MaxCalls == 2
MaxBotCalls == 2
MaxLogins == 2
MaxLogouts == 2
MaxSends == 1
MaxAuthCalls == 3
MaxVerifies == 2
MaxIdentityInits == 2
MaxSearches == 2
MaxHandlers == 2
MaxFacadeLogouts == 1

(***************************************************************************)
(* Program constants                                                       *)
(***************************************************************************)
LoadLimit == 100

NoClient == 0

NoCredential == 0

NoKeys == "null"
NoSession == <<>>

\* rooms that exist from the start, and the ids the server gives to created rooms
RoomIds == {1, 2}
NewRoomIds == 3..(2 + MaxBotCalls)
AllRoomIds == RoomIds \cup NewRoomIds
NoRoom == 0

Me == "me"
Bots == {"botA", "botB"}
Users == {Me, "other"} \cup Bots
Devices == {"d1", "d2"}
DeviceIds == {"DEV1", "DEV2"}
Events == 1..MaxEvents
NoEvent == 0

\* the bot keeps the last 20 turns of a conversation
HistoryLimit == 20
NoArray == 0

VARIABLES
    client,       \* ClawChatClient.client: NoClient or the id of an SDK client
    running,      \* SDK clients whose sync loop runs (started, not stopped)
    cryptoOn,     \* SDK clients for which isCryptoEnabled() is true
    enableE2EE,   \* ClawChatClient.config.enableE2EE
    logins,       \* login / restoreSession calls: [pc, on]
    logouts,      \* logout calls: their pc
    sends,        \* store sendMessage / sendImage calls: [pc, afterLogout, requests, uploads]
    isSending,    \* chat store
    timeline,     \* per room, the SDK's live timeline: event ids in server order
    decrypting,   \* per event, Timeline handlers suspended in decryptEventIfNeeded
    dupSeen,      \* an onMessage callback carried an id the list already held
    messages,     \* chat store: roomId -> list of Message
    isLoading,    \* chat store
    error,        \* chat store
    loading,      \* loadMessages calls awaiting getMessages: [roomId, result]
    rooms,        \* chat store: the Room list last taken from getRooms()
    currentRoomId,\* chat store
    sdkRooms,     \* client.getRooms(): [roomId, joined, invited] in enumeration order
    botCalls,     \* startBotChat calls: [pc, botUserId, seen, requested, result]
    createRequests, \* per peer, createRoom requests issued so far
    serverRooms,  \* rooms created on the server that the client has not synced yet
    secureStore,  \* SecureStore item CRYPTO_STORE_KEY: NoKeys or a device id
    deviceKeys,   \* CryptoManager.deviceKeys: NoKeys or a device id
    cryptoInit,   \* CryptoManager.initialize calls: [pc, keys]
    sessionKeys,  \* CryptoManager.sessionKeys: roomId -> session id or NoSession
    encCalls,     \* encryptMessage calls: [pc, roomId, recipientKeys, sessionId, created]
    callLog,      \* key-share and ciphertext steps in the order they happened
    authState,    \* auth store: [isLoading, isAuthenticated, session, error]
    sessionStore, \* SecureStore item STORAGE_KEY: NoCredential or a credential
    authCalls,    \* auth store initialize / login / logout calls: [pc, op, p, cred]
    discarded,    \* SDK clients of facades dropped by resetMatrixClient, logout in flight
    verifiedDevices, \* CryptoManager.verifiedDevices: the keys in insertion order
    verifiedStore,   \* SecureStore item 'clawchat_verified_devices': the list last written
    verifyCalls,     \* verifyDevice calls: [pc, key, list]
    backup,          \* the backups exportKeys has produced: at most the last one
    importCall,      \* importKeys call: [pc, keys]
    restarted,       \* the process has been restarted at least once
    searchState,     \* search store: [query, results, isSearching, hasSearched, error]
    searches,        \* search store search() calls: [pc, query]
    conversations,   \* bot: roomId -> the array held for the room, or NoArray
    arrays,          \* bot: the history arrays that exist, by identity
    nextArray,       \* bot: the identity the next new array gets
    handlers         \* bot: handleMessage calls: [pc, roomId, history, request]

storeVars == <<timeline, decrypting, dupSeen, messages, isLoading, error, loading,
               rooms, currentRoomId, isSending>>
chatRest == <<timeline, decrypting, dupSeen, messages, isLoading, loading, rooms,
              currentRoomId>>
roomVars == <<sdkRooms, botCalls, createRequests, serverRooms>>
facadeVars == <<client, running, cryptoOn, enableE2EE, logins, logouts, sends>>
cryptoVars == <<secureStore, deviceKeys, cryptoInit, sessionKeys, encCalls, callLog>>
authVars == <<authState, sessionStore, authCalls, discarded>>
trustVars == <<verifiedDevices, verifiedStore, verifyCalls, backup, importCall, restarted>>
searchVars == <<searchState, searches>>
botVars == <<conversations, arrays, nextArray, handlers>>
restVars == <<searchVars, botVars>>
otherVars == <<authVars, trustVars, restVars>>
vars == <<client, running, cryptoOn, enableE2EE, logins, logouts, sends, isSending,
          timeline, decrypting, dupSeen, messages,
          isLoading, error, loading, rooms, currentRoomId,
          sdkRooms, botCalls, createRequests, serverRooms,
          secureStore, deviceKeys, cryptoInit, sessionKeys, encCalls, callLog,
          authState, sessionStore, authCalls, discarded,
          verifiedDevices, verifiedStore, verifyCalls, backup, importCall, restarted,
          searchState, searches, conversations, arrays, nextArray, handlers>>

(***************************************************************************)
(* The state after construction: the chat store's initial state and a      *)
(* fresh CryptoManager                                                     *)
(***************************************************************************)
InitChatVars ==
    /\ timeline = [r \in AllRoomIds |-> <<>>]
    /\ decrypting = [e \in Events |-> 0]
    /\ dupSeen = FALSE
    /\ messages = [r \in AllRoomIds |-> <<>>]
    /\ isLoading = FALSE
    /\ error = "null"
    /\ loading = {}
    /\ rooms = <<>>
    /\ isSending = FALSE

InitStoreVars ==
    /\ InitChatVars
    /\ currentRoomId = NoRoom

LoginIds == 1..MaxLogins
LogoutIds == 1..MaxLogouts
\* the logout calls made while the store sends
FacadeLogoutIds == 1..MaxFacadeLogouts
SendIds == 1..MaxSends

\* no facade call has been made yet
InitCallVars ==
    /\ enableE2EE = TRUE
    /\ logins = [p \in LoginIds |-> [pc |-> "idle", on |-> NoClient]]
    /\ logouts = [q \in LogoutIds |-> "idle"]
    /\ sends = [s \in SendIds |->
                  [pc |-> "idle", afterLogout |-> FALSE, requests |-> 0, uploads |-> 0]]

BotCallIds == 1..MaxBotCalls

InitRoomVars ==
    /\ sdkRooms = <<>>
    /\ botCalls = [c \in BotCallIds |->
                     [pc |-> "idle", botUserId |-> "botA", seen |-> <<>>,
                      requested |-> FALSE, result |-> NoRoom]]
    /\ createRequests = [b \in Bots |-> 0]
    /\ serverRooms = {}

AuthIds == 1..MaxAuthCalls

\* the credential a password login p returns is p; an installation may hold the
\* credential of an earlier run
PriorCredential == MaxLogins + 1

\* the auth store's initial state; no auth call has been made
InitAuthCalls ==
    /\ authState = [isLoading |-> TRUE, isAuthenticated |-> FALSE,
                    session |-> NoCredential, error |-> "null"]
    /\ authCalls = [a \in AuthIds |-> [pc |-> "idle", op |-> "none", p |-> 0, cred |-> NoCredential]]
    /\ discarded = {}

InitAuthVars ==
    /\ InitAuthCalls
    /\ sessionStore = NoCredential

VerifyIds == 1..MaxVerifies

\* `${userId}:${deviceId}`
TrustKey(userId, deviceId) == <<userId, ":", deviceId>>

\* a fresh CryptoManager's trust state, nothing persisted, no backup made
InitTrustVars ==
    /\ verifiedDevices = <<>>
    /\ verifiedStore = <<>>
    /\ verifyCalls = [v \in VerifyIds |-> [pc |-> "idle", key |-> <<>>, list |-> <<>>]]
    /\ backup = {}
    /\ importCall = [pc |-> "idle", keys |-> NoKeys]
    /\ restarted = FALSE

SearchIds == 1..MaxSearches

\* the search store's initial state; no search has been started
InitSearchVars ==
    /\ searchState = [query |-> <<>>, results |-> <<>>, isSearching |-> FALSE,
                      hasSearched |-> FALSE, error |-> "null"]
    /\ searches = [k \in SearchIds |-> [pc |-> "idle", query |-> <<>>]]

HandlerIds == 1..MaxHandlers
\* every handleMessage call makes at most two arrays ([] and the slice)
ArrayIds == 1..(1 + 2 * MaxHandlers)

\* const conversations = new Map(); no message has been handled
InitBotVars ==
    /\ conversations = [r \in RoomIds |-> NoArray]
    /\ arrays = [a \in ArrayIds |-> <<>>]
    /\ nextArray = 1
    /\ handlers = [h \in HandlerIds |->
                     [pc |-> "idle", roomId |-> 1, history |-> NoArray, request |-> <<>>]]

InitRestVars == InitSearchVars /\ InitBotVars

InitOtherVars == InitAuthVars /\ InitTrustVars /\ InitRestVars

InitIds == 1..MaxInits
\* the initialize calls of one process where the device identity is studied
IdentityInitIds == 1..MaxIdentityInits
CallIds == 1..MaxCalls

InitCryptoVars ==
    /\ secureStore = NoKeys
    /\ deviceKeys = NoKeys
    /\ cryptoInit = [i \in IdentityInitIds |-> [pc |-> "idle", keys |-> NoKeys]]
    /\ sessionKeys = [r \in RoomIds |-> NoSession]
    /\ encCalls = [c \in CallIds |->
                     [pc |-> "idle", roomId |-> 1, recipientKeys |-> {},
                      sessionId |-> NoSession, created |-> FALSE]]
    /\ callLog = <<>>

(***************************************************************************)
(* Sequence helpers                                                        *)
(***************************************************************************)
Range(s) == {s[i] : i \in DOMAIN s}

\* Array.prototype.slice(-n)
SliceLast(s, n) ==
    IF Len(s) <= n THEN s ELSE SubSeq(s, Len(s) - n + 1, Len(s))

\* index of x in s, 0 when absent
IndexOf(s, x) ==
    IF \E i \in DOMAIN s : s[i] = x
    THEN CHOOSE i \in DOMAIN s : s[i] = x /\ \A j \in 1..(i - 1) : s[j] # x
    ELSE 0

(***************************************************************************)
(* The universe of m.room.message events the server can put in a timeline. *)
(* Odd ids are encrypted events; timestamps run against the ids, so that   *)
(* arrival order and timestamp order differ.                               *)
(***************************************************************************)
EventRoom(e) == IF e > 3 THEN 2 ELSE 1
EventEncrypted(e) == e % 2 = 1
EventTs(e) == (MaxEvents + 1) - e

eventToMessage(e) ==
    [id |-> e, roomId |-> EventRoom(e), timestamp |-> EventTs(e),
     encrypted |-> EventEncrypted(e)]

(***************************************************************************)
(* useChatStore.initialize: the onMessage listener                         *)
(***************************************************************************)
OnMessageNoCheck(msgs, message) ==
    [msgs EXCEPT ![message.roomId] = Append(@, message)]

OnMessage(msgs, message) ==
    IF \E i \in DOMAIN msgs[message.roomId] : msgs[message.roomId][i].id = message.id
    THEN msgs
    ELSE [msgs EXCEPT ![message.roomId] = Append(@, message)]

\* the synchronous tail of the Timeline handler: eventToMessage, onMessageCallback
Deliver(e) ==
    /\ messages' = OnMessage(messages, eventToMessage(e))
    /\ dupSeen' = (dupSeen \/ \E i \in DOMAIN messages[EventRoom(e)] :
                                 messages[EventRoom(e)][i].id = e)

(***************************************************************************)
(* ClawChatClient.setupEventListeners: the RoomEvent.Timeline handler.     *)
(* The SDK emits the event after adding it to the room's live timeline; a  *)
(* retried or overlapping batch emits an event that is already there.      *)
(***************************************************************************)
TimelineEvent(e, toStartOfTimeline) ==
    /\ client # NoClient
    /\ client \in running
    /\ timeline' = [timeline EXCEPT ![EventRoom(e)] =
                       IF e \in Range(@) THEN @ ELSE Append(@, e)]
    /\ IF toStartOfTimeline
       THEN UNCHANGED <<decrypting, dupSeen, messages>>
       ELSE IF EventEncrypted(e) /\ client \in cryptoOn
            THEN /\ decrypting[e] < MaxInFlight
                 /\ decrypting' = [decrypting EXCEPT ![e] = @ + 1]
                 /\ UNCHANGED <<dupSeen, messages>>
            ELSE /\ Deliver(e)
                 /\ UNCHANGED decrypting
    /\ UNCHANGED <<isLoading, error, loading, rooms, currentRoomId, isSending, facadeVars, cryptoVars, roomVars, otherVars>>

\* decryptEventIfNeeded settled and the handler resumes.  Resolved: the event has its
\* clear content.  Rejected and caught: the event still has no clear content, so
\* eventToMessage finds no body, returns null, and nothing is passed to the callback
DecryptSettled(e, ok) ==
    /\ decrypting[e] > 0
    /\ decrypting' = [decrypting EXCEPT ![e] = @ - 1]
    /\ IF ok THEN Deliver(e) ELSE UNCHANGED <<dupSeen, messages>>
    /\ UNCHANGED <<timeline, isLoading, error, loading, rooms, currentRoomId, isSending, facadeVars,
                   cryptoVars, roomVars, otherVars>>

(***************************************************************************)
(* ClawChatClient.getMessages: the message events of the live timeline,    *)
(* the last `limit` of them, in timeline order                             *)
(***************************************************************************)
RECURSIVE EventsToMessages(_)
EventsToMessages(s) ==
    IF s = <<>> THEN <<>>
    ELSE <<eventToMessage(Head(s))>> \o EventsToMessages(Tail(s))

getMessages(roomId, limit) == EventsToMessages(SliceLast(timeline[roomId], limit))

(***************************************************************************)
(* useChatStore.loadMessages                                               *)
(***************************************************************************)
LoadMessagesStart(roomId) ==
    /\ Cardinality(loading) < MaxLoads
    /\ IF client = NoClient
       THEN /\ isLoading' = FALSE
            /\ error' = "Client not initialized"
            /\ UNCHANGED loading
       ELSE /\ isLoading' = TRUE
            /\ loading' = loading \cup
                   {[roomId |-> roomId, result |-> getMessages(roomId, LoadLimit)]}
            /\ UNCHANGED error
    /\ UNCHANGED <<timeline, decrypting, dupSeen, messages, rooms, currentRoomId, isSending, facadeVars,
                   cryptoVars, roomVars, otherVars>>

LoadMessagesDone(l) ==
    /\ l \in loading
    /\ loading' = loading \ {l}
    /\ isLoading' = FALSE
    /\ messages' = [messages EXCEPT ![l.roomId] = l.result]
    /\ UNCHANGED <<timeline, decrypting, dupSeen, error, rooms, currentRoomId, isSending, facadeVars,
                   cryptoVars, roomVars, otherVars>>

(***************************************************************************)
(* CryptoManager: device keys                                              *)
(***************************************************************************)
\* initialize(): await SecureStore.getItemAsync(CRYPTO_STORE_KEY)
InitializeCall(i) ==
    /\ cryptoInit[i].pc = "idle"
    /\ \A o \in 1..(i - 1) : cryptoInit[o].pc # "idle"
    /\ cryptoInit' = [cryptoInit EXCEPT ![i].pc = "reading", ![i].keys = secureStore]
    /\ UNCHANGED <<secureStore, deviceKeys, sessionKeys, encCalls, callLog,
                   storeVars, facadeVars, roomVars, otherVars>>

\* stored keys are adopted; otherwise generateDeviceKeys() is called and awaited
InitializeLoaded(i, d) ==
    /\ cryptoInit[i].pc = "reading"
    /\ IF cryptoInit[i].keys # NoKeys
       THEN /\ deviceKeys' = cryptoInit[i].keys
            /\ cryptoInit' = [cryptoInit EXCEPT ![i].pc = "done"]
       ELSE /\ cryptoInit' = [cryptoInit EXCEPT ![i].pc = "generated", ![i].keys = d]
            /\ UNCHANGED deviceKeys
    /\ UNCHANGED <<secureStore, sessionKeys, encCalls, callLog,
                   storeVars, facadeVars, roomVars, otherVars>>

\* this.deviceKeys = <generated>; await SecureStore.setItemAsync(...)
InitializeGenerated(i) ==
    /\ cryptoInit[i].pc = "generated"
    /\ deviceKeys' = cryptoInit[i].keys
    /\ cryptoInit' = [cryptoInit EXCEPT ![i].pc = "storing"]
    /\ UNCHANGED <<secureStore, sessionKeys, encCalls, callLog,
                   storeVars, facadeVars, roomVars, otherVars>>

\* setItemAsync resolved with this call's keys written; initialize returns
InitializeStored(i) ==
    /\ cryptoInit[i].pc = "storing"
    /\ secureStore' = cryptoInit[i].keys
    /\ cryptoInit' = [cryptoInit EXCEPT ![i].pc = "done"]
    /\ UNCHANGED <<deviceKeys, sessionKeys, encCalls, callLog,
                   storeVars, facadeVars, roomVars, otherVars>>

(***************************************************************************)
(* CryptoManager.encryptMessage                                            *)
(***************************************************************************)
\* `session_${roomId}_${Date.now()}`: the clock is read as the number of the call,
\* so that sessions created by different calls carry different ids
createMegolmSession(roomId, c) == <<roomId, c>>

LogEntry(op, c, roomId, sessionId, devices) ==
    [op |-> op, call |-> c, roomId |-> roomId, sessionId |-> sessionId,
     devices |-> devices]

\* the payload is built and returned
Ciphertext(log, c, roomId, sessionId, devices) ==
    Append(log, LogEntry("ciphertext", c, roomId, sessionId, devices))

\* the mutant: the session key is shared but the share is not awaited
EstablishSessionNoAwait(c, roomId, recipientKeys) ==
    LET sessionId == createMegolmSession(roomId, c) IN
    /\ sessionKeys' = [sessionKeys EXCEPT ![roomId] = sessionId]
    /\ callLog' = Ciphertext(
                     Append(callLog, LogEntry("share", c, roomId, sessionId, recipientKeys)),
                     c, roomId, sessionId, recipientKeys)
    /\ encCalls' = [encCalls EXCEPT ![c] =
                      [pc |-> "done", roomId |-> roomId, recipientKeys |-> recipientKeys,
                       sessionId |-> sessionId, created |-> TRUE]]

\* no session for the room: create it, record it, call shareSessionKey and await it
EstablishSession(c, roomId, recipientKeys) ==
    LET sessionId == createMegolmSession(roomId, c) IN
    /\ sessionKeys' = [sessionKeys EXCEPT ![roomId] = sessionId]
    /\ callLog' = Append(callLog, LogEntry("share", c, roomId, sessionId, recipientKeys))
    /\ encCalls' = [encCalls EXCEPT ![c] =
                      [pc |-> "sharing", roomId |-> roomId, recipientKeys |-> recipientKeys,
                       sessionId |-> sessionId, created |-> TRUE]]

\* the mutant: a session is created for every call
EncryptMessageCallRotate(c, roomId, recipientKeys) ==
    /\ encCalls[c].pc = "idle"
    /\ \A o \in 1..(c - 1) : encCalls[o].pc # "idle"
    /\ IF deviceKeys = NoKeys
       THEN /\ encCalls' = [encCalls EXCEPT ![c].pc = "threw"]
            /\ UNCHANGED <<sessionKeys, callLog>>
       ELSE EstablishSession(c, roomId, recipientKeys)
    /\ UNCHANGED <<secureStore, deviceKeys, cryptoInit,
                   storeVars, facadeVars, roomVars, otherVars>>

\* calls are numbered in the order they are made
EncryptMessageCall(c, roomId, recipientKeys) ==
    /\ encCalls[c].pc = "idle"
    /\ \A o \in 1..(c - 1) : encCalls[o].pc # "idle"
    /\ IF deviceKeys = NoKeys
       THEN /\ encCalls' = [encCalls EXCEPT ![c].pc = "threw"]
            /\ UNCHANGED <<sessionKeys, callLog>>
       ELSE IF sessionKeys[roomId] # NoSession
            THEN /\ encCalls' = [encCalls EXCEPT ![c] =
                                   [pc |-> "done", roomId |-> roomId,
                                    recipientKeys |-> recipientKeys,
                                    sessionId |-> sessionKeys[roomId], created |-> FALSE]]
                 /\ callLog' = Ciphertext(callLog, c, roomId, sessionKeys[roomId],
                                          recipientKeys)
                 /\ UNCHANGED sessionKeys
            ELSE EstablishSession(c, roomId, recipientKeys)
    /\ UNCHANGED <<secureStore, deviceKeys, cryptoInit,
                   storeVars, facadeVars, roomVars, otherVars>>

\* CryptoManager.shareSessionKey: the promise it returned is fulfilled; encryptMessage
\* resumes after the await and returns the payload
ShareSessionKeyDone(c) ==
    /\ encCalls[c].pc = "sharing"
    /\ encCalls' = [encCalls EXCEPT ![c].pc = "done"]
    /\ callLog' = Ciphertext(
                     Append(callLog, LogEntry("shared", c, encCalls[c].roomId,
                                              encCalls[c].sessionId,
                                              encCalls[c].recipientKeys)),
                     c, encCalls[c].roomId, encCalls[c].sessionId,
                     encCalls[c].recipientKeys)
    /\ UNCHANGED <<secureStore, deviceKeys, cryptoInit, sessionKeys,
                   storeVars, facadeVars, roomVars, otherVars>>

InFlight(c) == encCalls[c].pc = "sharing"

(***************************************************************************)
(* SpecCrypto: encryptMessage calls in any interleaving.                   *)
(* SpecCryptoSeq: one encryptMessage at a time (each call is awaited       *)
(* before the next is made).                                               *)
(***************************************************************************)
InitCrypto ==
    /\ client = NoClient
    /\ running = {}
    /\ cryptoOn = {}
    /\ InitCallVars
    /\ InitStoreVars
    /\ InitCryptoVars
    /\ InitRoomVars
    /\ InitOtherVars

NextCrypto ==
    \/ \E i \in InitIds : InitializeCall(i)
    \/ \E i \in InitIds, d \in DeviceIds : InitializeLoaded(i, d)
    \/ \E i \in InitIds : InitializeGenerated(i)
    \/ \E i \in InitIds : InitializeStored(i)
    \/ \E c \in CallIds, r \in RoomIds, k \in SUBSET Devices :
           EncryptMessageCall(c, r, k)
    \/ \E c \in CallIds : ShareSessionKeyDone(c)

\* encryptMessage called only when no other call is in flight
EncryptMessageCallSeq(c, roomId, recipientKeys) ==
    /\ \A o \in CallIds : ~InFlight(o)
    /\ EncryptMessageCall(c, roomId, recipientKeys)

NextCryptoSeq ==
    \/ \E i \in InitIds : InitializeCall(i)
    \/ \E i \in InitIds, d \in DeviceIds : InitializeLoaded(i, d)
    \/ \E i \in InitIds : InitializeGenerated(i)
    \/ \E i \in InitIds : InitializeStored(i)
    \/ \E c \in CallIds, r \in RoomIds, k \in SUBSET Devices :
           EncryptMessageCallSeq(c, r, k)
    \/ \E c \in CallIds : ShareSessionKeyDone(c)

SpecCrypto == InitCrypto /\ [][NextCrypto]_vars
SpecCryptoSeq == InitCrypto /\ [][NextCryptoSeq]_vars

\* positions in the call log
LogIdx(op, c) == {i \in DOMAIN callLog : callLog[i].op = op /\ callLog[i].call = c}

(***************************************************************************)
(* C3: an encryptMessage call that finds no session for its room performs  *)
(* exactly one key-distribution step for that room, and that step has      *)
(* completed before the call's ciphertext is produced.                     *)
(***************************************************************************)
KeyShareBeforeCiphertext ==
    \A c \in CallIds :
        (encCalls[c].created /\ encCalls[c].pc = "done") =>
            /\ Cardinality({i \in DOMAIN callLog :
                   callLog[i].op = "share" /\ callLog[i].roomId = encCalls[c].roomId}) = 1
            /\ Cardinality(LogIdx("share", c)) = 1
            /\ Cardinality(LogIdx("shared", c)) = 1
            /\ \A i \in LogIdx("shared", c), j \in LogIdx("ciphertext", c) : i < j
            /\ \A i \in LogIdx("share", c), j \in LogIdx("shared", c) : i < j

\* a first send to a room has returned its payload
FirstSendDoneWitness ==
    \E c \in CallIds :
        /\ encCalls[c].created
        /\ encCalls[c].pc = "done"
        /\ LogIdx("ciphertext", c) # {}

KeyDistributedToAllRecipients ==
    \A j \in DOMAIN callLog :
        callLog[j].op = "ciphertext" =>
            \A d \in callLog[j].devices :
                \E i \in 1..(j - 1) :
                    /\ callLog[i].op = "shared"
                    /\ callLog[i].sessionId = callLog[j].sessionId
                    /\ d \in callLog[i].devices

(***************************************************************************)
(* SpecStore: a logged-in client, events arriving, the store listening     *)
(***************************************************************************)
InitStore ==
    /\ client = 1
    /\ running = {1}
    /\ cryptoOn \in {{}, {1}}
    /\ InitCallVars
    /\ InitStoreVars
    /\ InitCryptoVars
    /\ InitRoomVars
    /\ InitOtherVars

NextStore ==
    \/ \E e \in Events, b \in BOOLEAN : TimelineEvent(e, b)
    \/ \E e \in Events, ok \in BOOLEAN : DecryptSettled(e, ok)
    \/ \E r \in RoomIds : LoadMessagesStart(r)
    \/ \E l \in loading : LoadMessagesDone(l)

SpecStore == InitStore /\ [][NextStore]_vars

(***************************************************************************)
(* C1: a room's message list never holds two messages with the same id,    *)
(* whatever deliveries (repeated ones included) and loadMessages calls     *)
(* have happened.                                                          *)
(***************************************************************************)
NoDuplicateIds ==
    \A r \in AllRoomIds : \A i, j \in DOMAIN messages[r] :
        i # j => messages[r][i].id # messages[r][j].id

\* an event was delivered twice and the room still lists three distinct messages
DuplicateDeliveredWitness ==
    /\ dupSeen
    /\ Len(messages[1]) = 3

(***************************************************************************)
(* C2: within a room the store's list follows the order in which the       *)
(* server timeline delivered the events.                                 *)
(***************************************************************************)
ServerTimelineOrder ==
    \A r \in AllRoomIds : \A i, j \in DOMAIN messages[r] :
        i < j => IndexOf(timeline[r], messages[r][i].id)
                   < IndexOf(timeline[r], messages[r][j].id)

(***************************************************************************)
(* ClawChatClient.getOrCreateBotRoom and useChatStore.startBotChat         *)
(***************************************************************************)
\* the mutant: the last matching room wins
FindExistingRoomLast(rs, botUserId) ==
    LET hits == {i \in DOMAIN rs :
                    Cardinality(rs[i].joined) = 2 /\ botUserId \in rs[i].joined}
    IN IF hits = {} THEN NoRoom
       ELSE rs[CHOOSE i \in hits : \A j \in hits : j <= i].roomId

\* for (const room of existingRooms) { if (2 joined members, one is the bot) return }
RECURSIVE FindExistingRoom(_, _)
FindExistingRoom(rs, botUserId) ==
    IF rs = <<>> THEN NoRoom
    ELSE IF Cardinality(Head(rs).joined) = 2 /\ botUserId \in Head(rs).joined
         THEN Head(rs).roomId
         ELSE FindExistingRoom(Tail(rs), botUserId)

\* matrixRoomToRoom over client.getRooms(); [] without a client
\* room.getLastLiveEvent(): the last event of the room's live timeline
getLastLiveEvent(roomId) ==
    IF timeline[roomId] = <<>> THEN NoEvent ELSE timeline[roomId][Len(timeline[roomId])]

matrixRoomToRoom(room) ==
    [id |-> room.roomId,
     isDirect |-> (Me \in room.joined /\ Cardinality(room.joined) = 2),
     lastMessage |-> getLastLiveEvent(room.roomId)]

RECURSIVE MapRooms(_)
MapRooms(rs) ==
    IF rs = <<>> THEN <<>> ELSE <<matrixRoomToRoom(Head(rs))>> \o MapRooms(Tail(rs))

getRooms == IF client = NoClient THEN <<>> ELSE MapRooms(sdkRooms)

UsedRoomIds == {sdkRooms[i].roomId : i \in DOMAIN sdkRooms} \cup {r.roomId : r \in serverRooms}

\* startBotChat after getOrCreateBotRoom returned roomId: refresh rooms, select the
\* room, start loadMessages (which runs up to its await of getMessages).  The
\* continuation runs in the microtasks of the step that settled the promise.
BotChatStarted(roomId) ==
    /\ rooms' = getRooms
    /\ currentRoomId' = roomId
    /\ isLoading' = TRUE
    /\ loading' = loading \cup
           {[roomId |-> roomId, result |-> getMessages(roomId, LoadLimit)]}
    /\ UNCHANGED error

\* startBotChat: set isLoading, call getOrCreateBotRoom; an existing room is returned
\* at once, otherwise createRoom is requested and awaited
StartBotChat(c, botUserId) ==
    /\ botCalls[c].pc = "idle"
    /\ \A o \in 1..(c - 1) : botCalls[o].pc # "idle"
    /\ IF client = NoClient
       THEN /\ botCalls' = [botCalls EXCEPT ![c].pc = "threw", ![c].botUserId = botUserId]
            /\ isLoading' = FALSE
            /\ error' = "Client not initialized"
            /\ UNCHANGED <<createRequests, rooms, currentRoomId, loading>>
       ELSE LET found == FindExistingRoom(sdkRooms, botUserId) IN
            IF found # NoRoom
            THEN /\ botCalls' = [botCalls EXCEPT ![c] =
                                   [pc |-> "done", botUserId |-> botUserId,
                                    seen |-> sdkRooms, requested |-> FALSE,
                                    result |-> found]]
                 /\ Cardinality(loading) < MaxLoads
                 /\ BotChatStarted(found)
                 /\ UNCHANGED createRequests
            ELSE /\ botCalls' = [botCalls EXCEPT ![c] =
                                   [pc |-> "creating", botUserId |-> botUserId,
                                    seen |-> sdkRooms, requested |-> TRUE,
                                    result |-> NoRoom]]
                 /\ createRequests' = [createRequests EXCEPT ![botUserId] = @ + 1]
                 /\ isLoading' = TRUE
                 /\ UNCHANGED <<error, rooms, currentRoomId, loading>>
    /\ UNCHANGED <<sdkRooms, serverRooms, timeline, decrypting, dupSeen, messages,
                   isSending, facadeVars, cryptoVars, otherVars>>

\* the server created the room and answered createRoom: getOrCreateBotRoom returns
\* its id and startBotChat continues
CreateRoomResponse(c, n) ==
    /\ botCalls[c].pc = "creating"
    /\ n \in NewRoomIds \ UsedRoomIds
    /\ \A o \in NewRoomIds \ UsedRoomIds : n <= o
    /\ serverRooms' = serverRooms \cup {[roomId |-> n, invited |-> botCalls[c].botUserId]}
    /\ botCalls' = [botCalls EXCEPT ![c].pc = "done", ![c].result = n]
    /\ Cardinality(loading) < MaxLoads
    /\ BotChatStarted(n)
    /\ UNCHANGED <<sdkRooms, createRequests, timeline, decrypting, dupSeen, messages,
                   isSending, facadeVars, cryptoVars, otherVars>>

\* createRoom rejected: startBotChat records the error and rethrows
CreateRoomFailed(c) ==
    /\ botCalls[c].pc = "creating"
    /\ botCalls' = [botCalls EXCEPT ![c].pc = "threw"]
    /\ isLoading' = FALSE
    /\ error' = "Failed to start chat with bot"
    /\ UNCHANGED <<sdkRooms, createRequests, serverRooms, timeline, decrypting, dupSeen,
                   messages, loading, rooms, currentRoomId, isSending, facadeVars, cryptoVars, otherVars>>

\* a sync brings a created room to the client: the user has joined, the bot is invited
RoomSynced(r) ==
    /\ r \in serverRooms
    /\ serverRooms' = serverRooms \ {r}
    /\ sdkRooms' = Append(sdkRooms, [roomId |-> r.roomId, joined |-> {Me},
                                     invited |-> r.invited])
    /\ UNCHANGED <<botCalls, createRequests, storeVars, facadeVars, cryptoVars, otherVars>>

\* the invited bot joins a room
PeerJoined(i) ==
    /\ i \in DOMAIN sdkRooms
    /\ sdkRooms[i].invited \in Bots
    /\ sdkRooms[i].invited \notin sdkRooms[i].joined
    /\ sdkRooms' = [sdkRooms EXCEPT ![i].joined = @ \cup {sdkRooms[i].invited}]
    /\ UNCHANGED <<botCalls, createRequests, serverRooms, storeVars, facadeVars, cryptoVars, otherVars>>

(***************************************************************************)
(* SpecRooms: a logged-in client that knows up to two rooms                *)
(***************************************************************************)
JoinedSets == {{Me, "botA"}, {Me, "botB"}, {Me, "botA", "other"}, {"botA", "other"}, {Me}}

InitialRoomLists ==
    {<<>>}
    \cup {<<[roomId |-> 1, joined |-> a, invited |-> "none"]>> : a \in JoinedSets}
    \cup {<<[roomId |-> 1, joined |-> a, invited |-> "none"],
            [roomId |-> 2, joined |-> b, invited |-> "none"]>> :
             a \in JoinedSets, b \in JoinedSets}

InitRooms ==
    /\ client = 1
    /\ running = {1}
    /\ cryptoOn = {}
    /\ InitCallVars
    /\ InitStoreVars
    /\ InitCryptoVars
    /\ botCalls = [c \in BotCallIds |->
                     [pc |-> "idle", botUserId |-> "botA", seen |-> <<>>,
                      requested |-> FALSE, result |-> NoRoom]]
    /\ createRequests = [b \in Bots |-> 0]
    /\ serverRooms = {}
    /\ sdkRooms \in InitialRoomLists
    /\ InitOtherVars

NextRooms ==
    \/ \E c \in BotCallIds, b \in Bots : StartBotChat(c, b)
    \/ \E c \in BotCallIds, n \in NewRoomIds : CreateRoomResponse(c, n)
    \/ \E c \in BotCallIds : CreateRoomFailed(c)
    \/ \E r \in serverRooms : RoomSynced(r)
    \/ \E i \in 1..(2 + MaxBotCalls) : PeerJoined(i)
    \/ \E l \in loading : LoadMessagesDone(l)

SpecRooms == InitRooms /\ [][NextRooms]_vars

IsDirectWith(room, botUserId) ==
    Cardinality(room.joined) = 2 /\ botUserId \in room.joined

(***************************************************************************)
(* C6: when the client knows a room with exactly two joined members, one   *)
(* of them the peer, getOrCreateBotRoom returns the first such room in     *)
(* enumeration order and issues no createRoom request; two calls with the  *)
(* same peer against the same room state return the same room id.          *)
(***************************************************************************)
ExistingRoomReturned ==
    /\ \A c \in BotCallIds :
        LET call == botCalls[c] IN
        (/\ call.pc \in {"creating", "done"}
         /\ \E i \in DOMAIN call.seen : IsDirectWith(call.seen[i], call.botUserId))
        => /\ call.pc # "creating"
           /\ ~call.requested
           /\ \E i \in DOMAIN call.seen :
                 /\ call.seen[i].roomId = call.result
                 /\ IsDirectWith(call.seen[i], call.botUserId)
                 /\ \A j \in 1..(i - 1) : ~IsDirectWith(call.seen[j], call.botUserId)
    /\ \A c, d \in BotCallIds :
        (/\ botCalls[c].pc = "done"
         /\ botCalls[d].pc = "done"
         /\ botCalls[c].botUserId = botCalls[d].botUserId
         /\ botCalls[c].seen = botCalls[d].seen
         /\ \E i \in DOMAIN botCalls[c].seen :
               IsDirectWith(botCalls[c].seen[i], botCalls[c].botUserId))
        => botCalls[c].result = botCalls[d].result

\* two calls for one peer returned an existing room, chosen among two candidates
ExistingRoomTwiceWitness ==
    \E c, d \in BotCallIds :
        /\ c # d
        /\ botCalls[c].pc = "done"
        /\ botCalls[d].pc = "done"
        /\ botCalls[c].botUserId = botCalls[d].botUserId
        /\ ~botCalls[c].requested
        /\ ~botCalls[d].requested
        /\ Cardinality({i \in DOMAIN botCalls[c].seen :
               IsDirectWith(botCalls[c].seen[i], botCalls[c].botUserId)}) = 2

(***************************************************************************)
(* C7: whatever the interleaving of getOrCreateBotRoom calls for one peer, *)
(* at most one createRoom request is issued for that peer.                 *)
(***************************************************************************)
AtMostOneRoomCreated ==
    \A b \in Bots : createRequests[b] <= 1

(***************************************************************************)
(* ClawChatClient.login / restoreSession / initializeClient.  The SDK      *)
(* client a call creates carries the number of the call.  initializeClient *)
(* reads this.client again after every await.                              *)
(***************************************************************************)
\* this.client = sdk.createClient(...), then up to the first await
InitializeClient(p) ==
    /\ client' = p
    /\ IF enableE2EE
       THEN /\ logins' = [logins EXCEPT ![p] = [pc |-> "crypto", on |-> NoClient]]
            /\ UNCHANGED running
       ELSE /\ logins' = [logins EXCEPT ![p] = [pc |-> "starting", on |-> NoClient]]
            /\ running' = running \cup {p}
    /\ UNCHANGED cryptoOn

\* login(): await tempClient.login(...)
LoginCall(p) ==
    /\ logins[p].pc = "idle"
    /\ \A o \in 1..(p - 1) : logins[o].pc # "idle"
    /\ logins' = [logins EXCEPT ![p].pc = "auth"]
    /\ UNCHANGED <<client, running, cryptoOn, enableE2EE, logouts, sends,
                   storeVars, cryptoVars, roomVars, otherVars>>

\* the server answered the password login
LoginAuthenticated(p, ok) ==
    /\ logins[p].pc = "auth"
    /\ IF ok
       THEN InitializeClient(p)
       ELSE /\ logins' = [logins EXCEPT ![p].pc = "threw"]
            /\ UNCHANGED <<client, running, cryptoOn>>
    /\ UNCHANGED <<enableE2EE, logouts, sends, storeVars, cryptoVars, roomVars, otherVars>>

RestoreSessionCall(p) ==
    /\ logins[p].pc = "idle"
    /\ \A o \in 1..(p - 1) : logins[o].pc # "idle"
    /\ InitializeClient(p)
    /\ UNCHANGED <<enableE2EE, logouts, sends, storeVars, cryptoVars, roomVars, otherVars>>

\* the mutant: a failure of initRustCrypto is not caught and initializeClient rejects
CryptoInitializedFatal(p, ok) ==
    /\ logins[p].pc = "crypto"
    /\ cryptoOn' = IF ok THEN cryptoOn \cup {p} ELSE cryptoOn
    /\ IF client = NoClient \/ ~ok
       THEN /\ logins' = [logins EXCEPT ![p].pc = "threw"]
            /\ UNCHANGED running
       ELSE /\ logins' = [logins EXCEPT ![p].pc = "starting"]
            /\ running' = running \cup {client}
    /\ UNCHANGED <<client, enableE2EE, logouts, sends, storeVars, cryptoVars, roomVars,
                   otherVars>>

\* initRustCrypto settled (a failure is caught); listeners are set up; startClient
\* is called on this.client
CryptoInitialized(p, ok) ==
    /\ logins[p].pc = "crypto"
    /\ cryptoOn' = IF ok THEN cryptoOn \cup {p} ELSE cryptoOn
    /\ IF client = NoClient
       THEN /\ logins' = [logins EXCEPT ![p].pc = "threw"]
            /\ UNCHANGED running
       ELSE /\ logins' = [logins EXCEPT ![p].pc = "starting"]
            /\ running' = running \cup {client}
    /\ UNCHANGED <<client, enableE2EE, logouts, sends, storeVars, cryptoVars, roomVars, otherVars>>

\* startClient settled; the one-shot Sync listener is registered on this.client
StartClientDone(p, ok) ==
    /\ logins[p].pc = "starting"
    /\ IF ok /\ client # NoClient
       THEN logins' = [logins EXCEPT ![p] = [pc |-> "syncing", on |-> client]]
       ELSE logins' = [logins EXCEPT ![p].pc = "threw"]
    /\ UNCHANGED <<client, running, cryptoOn, enableE2EE, logouts, sends,
                   storeVars, cryptoVars, roomVars, otherVars>>

\* the first Sync event after the listener was registered
SyncEvent(p, state) ==
    /\ logins[p].pc = "syncing"
    /\ logins[p].on \in running
    /\ IF state # "PREPARED"
       THEN logins' = [logins EXCEPT ![p].pc = "hung"]
       ELSE IF ~enableE2EE
            THEN logins' = [logins EXCEPT ![p] = [pc |-> "done", on |-> NoClient]]
            ELSE IF client = NoClient
                 THEN logins' = [logins EXCEPT ![p] = [pc |-> "threw", on |-> NoClient]]
                 ELSE IF client \in cryptoOn
                      THEN logins' = [logins EXCEPT ![p] =
                                        [pc |-> "uploading", on |-> NoClient]]
                      ELSE logins' = [logins EXCEPT ![p] =
                                        [pc |-> "done", on |-> NoClient]]
    /\ UNCHANGED <<client, running, cryptoOn, enableE2EE, logouts, sends,
                   storeVars, cryptoVars, roomVars, otherVars>>

\* the client emits PREPARED after the one-shot listener was used up by an earlier
\* state: nothing listens, the promise initializeClient awaits stays pending
SyncPreparedUnheard(p) ==
    /\ logins[p].pc = "hung"
    /\ logins[p].on \in running
    /\ logins' = [logins EXCEPT ![p].pc = "missed"]
    /\ UNCHANGED <<client, running, cryptoOn, enableE2EE, logouts, sends,
                   storeVars, cryptoVars, roomVars, otherVars>>

\* uploadKeys settled
UploadKeysDone(p, ok) ==
    /\ logins[p].pc = "uploading"
    /\ logins' = [logins EXCEPT ![p].pc = IF ok THEN "done" ELSE "threw"]
    /\ UNCHANGED <<client, running, cryptoOn, enableE2EE, logouts, sends,
                   storeVars, cryptoVars, roomVars, otherVars>>

(***************************************************************************)
(* ClawChatClient.isE2EEEnabled / getDeviceFingerprint                     *)
(***************************************************************************)
\* this.client?.isCryptoEnabled() ?? false
isE2EEEnabled == client # NoClient /\ client \in cryptoOn

\* ownKey: what getOwnDeviceKeys() gives for ed25519, "null" when it gives none
getDeviceFingerprint(ownKey) == IF ~isE2EEEnabled THEN "null" ELSE ownKey

(***************************************************************************)
(* ClawChatClient.logout (resetMatrixClient calls it without awaiting)     *)
(***************************************************************************)
\* if (this.client) { await this.client.logout() ...
LogoutCall(q) ==
    /\ logouts[q] = "idle"
    /\ \A o \in 1..(q - 1) : logouts[o] # "idle"
    /\ logouts' = [logouts EXCEPT ![q] = IF client = NoClient THEN "done" ELSE "revoking"]
    /\ UNCHANGED <<client, running, cryptoOn, enableE2EE, logins, sends,
                   storeVars, cryptoVars, roomVars, otherVars>>

\* the revocation settled (ok) or failed and was caught (~ok):
\* this.client.stopClient(); this.client = null
LogoutRevoked(q, ok) ==
    /\ logouts[q] = "revoking"
    /\ IF client = NoClient
       THEN /\ logouts' = [logouts EXCEPT ![q] = "threw"]
            /\ UNCHANGED <<client, running>>
       ELSE /\ logouts' = [logouts EXCEPT ![q] = "done"]
            /\ running' = running \ {client}
            /\ client' = NoClient
    /\ UNCHANGED <<cryptoOn, enableE2EE, logins, sends, storeVars, cryptoVars, roomVars, otherVars>>

(***************************************************************************)
(* useChatStore.sendMessage / sendImage over ClawChatClient.sendMessage /  *)
(* sendImage                                                               *)
(***************************************************************************)
\* the mutant: the facade does not check for a client
ClientMissingIgnored == FALSE

\* if (!this.client) throw new Error('Client not initialized')
ClientMissing == client = NoClient

LoggedOut == \E q \in LogoutIds : logouts[q] = "done"

\* the mutant: a failed send is issued again
SendFailedRetry(s) ==
    /\ sends' = [sends EXCEPT ![s].requests = @ + 1]
    /\ UNCHANGED <<isSending, error>>

\* the store's catch block
SendFailed(s) ==
    /\ sends' = [sends EXCEPT ![s].pc = "failed"]
    /\ isSending' = FALSE
    /\ error' = "Failed to send"

StoreSendMessage(s, hasText) ==
    /\ sends[s].pc = "idle"
    /\ \A o \in 1..(s - 1) : sends[o].pc # "idle"
    /\ IF currentRoomId = NoRoom \/ ~hasText
       THEN /\ sends' = [sends EXCEPT ![s].pc = "skipped"]
            /\ UNCHANGED <<isSending, error>>
       ELSE IF ClientMissing
            THEN /\ sends' = [sends EXCEPT ![s].pc = "failed",
                                           ![s].afterLogout = LoggedOut]
                 /\ isSending' = FALSE
                 /\ error' = "Client not initialized"
            ELSE /\ sends' = [sends EXCEPT ![s].pc = "sending", ![s].requests = @ + 1]
                 /\ isSending' = TRUE
                 /\ UNCHANGED error
    /\ UNCHANGED <<client, running, cryptoOn, enableE2EE, logins, logouts,
                   chatRest, cryptoVars, roomVars, otherVars>>

\* sendTextMessage or sendImageMessage settled
SendRequestDone(s, ok) ==
    /\ sends[s].pc = "sending"
    /\ IF ok
       THEN /\ sends' = [sends EXCEPT ![s].pc = "done"]
            /\ isSending' = FALSE
            /\ UNCHANGED error
       ELSE SendFailed(s)
    /\ UNCHANGED <<client, running, cryptoOn, enableE2EE, logins, logouts,
                   chatRest, cryptoVars, roomVars, otherVars>>

StoreSendImage(s) ==
    /\ sends[s].pc = "idle"
    /\ \A o \in 1..(s - 1) : sends[o].pc # "idle"
    /\ IF currentRoomId = NoRoom
       THEN /\ sends' = [sends EXCEPT ![s].pc = "skipped"]
            /\ UNCHANGED <<isSending, error>>
       ELSE IF ClientMissing
            THEN /\ sends' = [sends EXCEPT ![s].pc = "failed",
                                           ![s].afterLogout = LoggedOut]
                 /\ isSending' = FALSE
                 /\ error' = "Client not initialized"
            ELSE /\ sends' = [sends EXCEPT ![s].pc = "fetching"]
                 /\ isSending' = TRUE
                 /\ UNCHANGED error
    /\ UNCHANGED <<client, running, cryptoOn, enableE2EE, logins, logouts,
                   chatRest, cryptoVars, roomVars, otherVars>>

\* fetch(uri) and blob() settled; this.client.uploadContent is called
ImageFetched(s, ok) ==
    /\ sends[s].pc = "fetching"
    /\ IF ok /\ client # NoClient
       THEN /\ sends' = [sends EXCEPT ![s].pc = "uploading", ![s].uploads = @ + 1]
            /\ UNCHANGED <<isSending, error>>
       ELSE SendFailed(s)
    /\ UNCHANGED <<client, running, cryptoOn, enableE2EE, logins, logouts,
                   chatRest, cryptoVars, roomVars, otherVars>>

\* uploadContent settled; this.client.sendImageMessage is called
ImageUploaded(s, ok) ==
    /\ sends[s].pc = "uploading"
    /\ IF ok /\ client # NoClient
       THEN /\ sends' = [sends EXCEPT ![s].pc = "sending", ![s].requests = @ + 1]
            /\ UNCHANGED <<isSending, error>>
       ELSE SendFailed(s)
    /\ UNCHANGED <<client, running, cryptoOn, enableE2EE, logins, logouts,
                   chatRest, cryptoVars, roomVars, otherVars>>

(***************************************************************************)
(* SpecSession: one ClawChatClient; login, restoreSession and logout calls *)
(* in any interleaving                                                     *)
(***************************************************************************)
InitFacade ==
    /\ client = NoClient
    /\ running = {}
    /\ cryptoOn = {}
    /\ enableE2EE \in BOOLEAN
    /\ logins = [p \in LoginIds |-> [pc |-> "idle", on |-> NoClient]]
    /\ logouts = [q \in LogoutIds |-> "idle"]
    /\ sends = [s \in SendIds |->
                  [pc |-> "idle", afterLogout |-> FALSE, requests |-> 0, uploads |-> 0]]
    /\ InitChatVars
    /\ currentRoomId \in {NoRoom, 1}
    /\ InitCryptoVars
    /\ InitRoomVars
    /\ InitOtherVars

NextSession ==
    \/ \E p \in LoginIds : LoginCall(p)
    \/ \E p \in LoginIds, ok \in BOOLEAN : LoginAuthenticated(p, ok)
    \/ \E p \in LoginIds : RestoreSessionCall(p)
    \/ \E p \in LoginIds, ok \in BOOLEAN : CryptoInitialized(p, ok)
    \/ \E p \in LoginIds, ok \in BOOLEAN : StartClientDone(p, ok)
    \/ \E p \in LoginIds, st \in {"PREPARED", "ERROR"} : SyncEvent(p, st)
    \/ \E p \in LoginIds, ok \in BOOLEAN : UploadKeysDone(p, ok)
    \/ \E q \in LogoutIds : LogoutCall(q)
    \/ \E q \in LogoutIds, ok \in BOOLEAN : LogoutRevoked(q, ok)

SpecSession == InitFacade /\ [][NextSession]_vars

(***************************************************************************)
(* SpecFacade: the store's sends in any interleaving with session calls    *)
(* that the caller awaits one after the other, as the auth store does      *)
(***************************************************************************)
SessionCallInFlight ==
    \/ \E p \in LoginIds : logins[p].pc \in {"auth", "crypto", "starting", "syncing",
                                             "uploading"}
    \/ \E q \in LogoutIds : logouts[q] = "revoking"

LoginCallSeq(p) == ~SessionCallInFlight /\ LoginCall(p)

RestoreSessionCallSeq(p) == ~SessionCallInFlight /\ RestoreSessionCall(p)

LogoutCallSeq(q) == ~SessionCallInFlight /\ LogoutCall(q)

NextFacade ==
    \/ \E p \in LoginIds : LoginCallSeq(p)
    \/ \E p \in LoginIds, ok \in BOOLEAN : LoginAuthenticated(p, ok)
    \/ \E p \in LoginIds : RestoreSessionCallSeq(p)
    \/ \E p \in LoginIds, ok \in BOOLEAN : CryptoInitialized(p, ok)
    \/ \E p \in LoginIds, ok \in BOOLEAN : StartClientDone(p, ok)
    \/ \E p \in LoginIds, st \in {"PREPARED", "ERROR"} : SyncEvent(p, st)
    \/ \E p \in LoginIds, ok \in BOOLEAN : UploadKeysDone(p, ok)
    \/ \E q \in FacadeLogoutIds : LogoutCallSeq(q)
    \/ \E q \in FacadeLogoutIds, ok \in BOOLEAN : LogoutRevoked(q, ok)
    \/ \E s \in SendIds, t \in BOOLEAN : StoreSendMessage(s, t)
    \/ \E s \in SendIds : StoreSendImage(s)
    \/ \E s \in SendIds, ok \in BOOLEAN : ImageFetched(s, ok)
    \/ \E s \in SendIds, ok \in BOOLEAN : ImageUploaded(s, ok)
    \/ \E s \in SendIds, ok \in BOOLEAN : SendRequestDone(s, ok)

SpecFacade == InitFacade /\ [][NextFacade]_vars

(***************************************************************************)
(* C8: sendMessage and sendImage invoked while the facade holds no client  *)
(* (before any login or restore, or after a logout has completed) fail     *)
(* and issue neither an upload nor a send request.                         *)
(***************************************************************************)
SendWithoutSessionFails ==
    [][\A s \in SendIds :
         /\ (sends[s].pc = "idle" /\ sends'[s].pc \notin {"idle", "skipped"}
             /\ client = NoClient)
            => /\ sends'[s].pc = "failed"
               /\ error' # "null"
               /\ sends'[s].requests = 0
               /\ sends'[s].uploads = 0
         /\ sends[s].pc = "failed" => sends'[s] = sends[s]]_vars

\* a send made after a login and a completed logout has failed on the guard
SendAfterLogoutWitness ==
    \E s \in SendIds :
        /\ sends[s].pc = "failed"
        /\ sends[s].afterLogout
        /\ sends[s].requests = 0
        /\ sends[s].uploads = 0
        /\ error = "Client not initialized"
        /\ \E p \in LoginIds : logins[p].pc = "done"

(***************************************************************************)
(* C9: one invocation of the store's sendMessage or sendImage issues at    *)
(* most one send request; when the request fails, the store's error is set *)
(* and isSending is reset in that step, and no further request follows.    *)
(***************************************************************************)
SendFailureStep(s) ==
    /\ sends[s].pc \in {"sending", "fetching", "uploading"}
    /\ sends'[s].pc = "failed"

AtMostOnceSend ==
    /\ [](\A s \in SendIds : sends[s].requests <= 1)
    /\ [][\A s \in SendIds :
            /\ SendFailureStep(s) =>
                  (error' # "null" /\ isSending' = FALSE
                   /\ sends'[s].requests = sends[s].requests)
            /\ sends[s].pc \in {"failed", "done", "skipped"} => sends'[s] = sends[s]]_vars

\* a send request was issued and failed
SendRequestFailedWitness ==
    \E s \in SendIds :
        /\ sends[s].pc = "failed"
        /\ sends[s].requests = 1
        /\ error # "null"
        /\ ~isSending

(***************************************************************************)
(* C10: every logout() call completes without an error, and at the moment  *)
(* it completes the facade holds no client and no sync loop is running.    *)
(***************************************************************************)
LogoutAlwaysCompletes ==
    [][\A q \in LogoutIds :
         (logouts[q] \in {"idle", "revoking"} /\ logouts'[q] \in {"done", "threw"})
         => (logouts'[q] = "done" /\ client' = NoClient /\ running' = {})]_vars

(***************************************************************************)
(* useAuthStore: initialize, login and logout over the facade and the      *)
(* SecureStore item STORAGE_KEY.  The caller awaits each call before it    *)
(* makes the next one.                                                     *)
(***************************************************************************)
AuthBusy == \E a \in AuthIds : authCalls[a].pc \notin {"idle", "done", "threw"}

\* the next auth store call
AuthCallable(a) ==
    /\ authCalls[a].pc = "idle"
    /\ \A o \in 1..(a - 1) : authCalls[o].pc # "idle"
    /\ ~AuthBusy

\* the next facade login / restoreSession call
FreeLogin(p) ==
    /\ logins[p].pc = "idle"
    /\ \A o \in 1..(p - 1) : logins[o].pc # "idle"

FacadeSettled(a) == logins[authCalls[a].p].pc \in {"done", "threw"}

\* initialize(): set({isLoading: true, error: null}); await getItemAsync(STORAGE_KEY)
AuthInitializeCall(a) ==
    /\ AuthCallable(a)
    /\ authState' = [authState EXCEPT !.isLoading = TRUE, !.error = "null"]
    /\ authCalls' = [authCalls EXCEPT ![a] =
                       [pc |-> "reading", op |-> "initialize", p |-> 0,
                        cred |-> NoCredential]]
    /\ UNCHANGED <<sessionStore, discarded, facadeVars, storeVars, cryptoVars, roomVars, trustVars, restVars>>

\* getItemAsync settled: a stored session is restored on the facade
AuthInitializeRead(a, p, ok) ==
    /\ authCalls[a].pc = "reading"
    /\ IF ~ok
       THEN /\ authCalls' = [authCalls EXCEPT ![a].pc = "clearing"]
            /\ UNCHANGED <<authState, facadeVars>>
       ELSE IF sessionStore = NoCredential
            THEN /\ authCalls' = [authCalls EXCEPT ![a].pc = "done"]
                 /\ authState' = [authState EXCEPT !.isLoading = FALSE]
                 /\ UNCHANGED facadeVars
            ELSE /\ FreeLogin(p)
                 /\ InitializeClient(p)
                 /\ authCalls' = [authCalls EXCEPT ![a] =
                                    [@ EXCEPT !.pc = "restoring", !.p = p,
                                              !.cred = sessionStore]]
                 /\ UNCHANGED <<authState, enableE2EE, logouts, sends>>
    /\ UNCHANGED <<sessionStore, discarded, storeVars, cryptoVars, roomVars, trustVars, restVars>>

\* restoreSession settled
AuthInitializeRestored(a) ==
    /\ authCalls[a].pc = "restoring"
    /\ FacadeSettled(a)
    /\ IF logins[authCalls[a].p].pc = "done"
       THEN /\ authState' = [authState EXCEPT !.isAuthenticated = TRUE,
                                              !.session = authCalls[a].cred,
                                              !.isLoading = FALSE]
            /\ authCalls' = [authCalls EXCEPT ![a].pc = "done"]
       ELSE /\ authCalls' = [authCalls EXCEPT ![a].pc = "clearing"]
            /\ UNCHANGED authState
    /\ UNCHANGED <<sessionStore, discarded, facadeVars, storeVars, cryptoVars, roomVars, trustVars, restVars>>

\* the catch block's deleteItemAsync settled
AuthInitializeCleared(a, ok) ==
    /\ authCalls[a].pc = "clearing"
    /\ IF ok
       THEN /\ sessionStore' = NoCredential
            /\ authState' = [authState EXCEPT !.isLoading = FALSE,
                                              !.error = "Session expired"]
            /\ authCalls' = [authCalls EXCEPT ![a].pc = "done"]
       ELSE /\ authCalls' = [authCalls EXCEPT ![a].pc = "threw"]
            /\ UNCHANGED <<sessionStore, authState>>
    /\ UNCHANGED <<discarded, facadeVars, storeVars, cryptoVars, roomVars, trustVars, restVars>>

\* login(): set({isLoading: true, error: null}); await client.login(...)
AuthLoginCall(a, p) ==
    /\ AuthCallable(a)
    /\ FreeLogin(p)
    /\ authState' = [authState EXCEPT !.isLoading = TRUE, !.error = "null"]
    /\ logins' = [logins EXCEPT ![p].pc = "auth"]
    /\ authCalls' = [authCalls EXCEPT ![a] =
                       [pc |-> "login", op |-> "login", p |-> p, cred |-> NoCredential]]
    /\ UNCHANGED <<sessionStore, discarded, client, running, cryptoOn, enableE2EE,
                   logouts, sends, storeVars, cryptoVars, roomVars, trustVars, restVars>>

\* client.login settled: await setItemAsync(STORAGE_KEY, session), or the catch block
AuthLoginReturned(a) ==
    /\ authCalls[a].pc = "login"
    /\ FacadeSettled(a)
    /\ IF logins[authCalls[a].p].pc = "done"
       THEN /\ authCalls' = [authCalls EXCEPT ![a].pc = "storing",
                                              ![a].cred = authCalls[a].p]
            /\ UNCHANGED authState
       ELSE /\ authCalls' = [authCalls EXCEPT ![a].pc = "threw"]
            /\ authState' = [authState EXCEPT !.isLoading = FALSE,
                                              !.error = "Login failed"]
    /\ UNCHANGED <<sessionStore, discarded, facadeVars, storeVars, cryptoVars, roomVars, trustVars, restVars>>

\* the mutant: the flag is set, the session is not
AuthLoginStoredFlagOnly(a, ok) ==
    /\ authCalls[a].pc = "storing"
    /\ IF ok
       THEN /\ sessionStore' = authCalls[a].cred
            /\ authState' = [authState EXCEPT !.isAuthenticated = TRUE,
                                              !.isLoading = FALSE]
            /\ authCalls' = [authCalls EXCEPT ![a].pc = "done"]
       ELSE /\ authState' = [authState EXCEPT !.isLoading = FALSE,
                                              !.error = "Login failed"]
            /\ authCalls' = [authCalls EXCEPT ![a].pc = "threw"]
            /\ UNCHANGED sessionStore
    /\ UNCHANGED <<discarded, facadeVars, storeVars, cryptoVars, roomVars, trustVars, restVars>>

\* setItemAsync settled
AuthLoginStored(a, ok) ==
    /\ authCalls[a].pc = "storing"
    /\ IF ok
       THEN /\ sessionStore' = authCalls[a].cred
            /\ authState' = [authState EXCEPT !.isAuthenticated = TRUE,
                                              !.session = authCalls[a].cred,
                                              !.isLoading = FALSE]
            /\ authCalls' = [authCalls EXCEPT ![a].pc = "done"]
       ELSE /\ authState' = [authState EXCEPT !.isLoading = FALSE,
                                              !.error = "Login failed"]
            /\ authCalls' = [authCalls EXCEPT ![a].pc = "threw"]
            /\ UNCHANGED sessionStore
    /\ UNCHANGED <<discarded, facadeVars, storeVars, cryptoVars, roomVars, trustVars, restVars>>

\* logout(): set({isLoading: true}); resetMatrixClient() calls the facade's logout()
\* without awaiting it and drops the facade, so that the next getMatrixClient() makes
\* a new one with no client; await deleteItemAsync(STORAGE_KEY)
AuthLogout(a) ==
    /\ authState' = [authState EXCEPT !.isLoading = TRUE]
    /\ discarded' = IF client = NoClient THEN discarded ELSE discarded \cup {client}
    /\ client' = NoClient
    /\ authCalls' = [authCalls EXCEPT ![a] =
                       [pc |-> "deleting", op |-> "logout", p |-> 0,
                        cred |-> NoCredential]]
    /\ UNCHANGED <<sessionStore, running, cryptoOn, enableE2EE, logins, logouts, sends,
                   storeVars, cryptoVars, roomVars, trustVars, restVars>>

AuthLogoutCall(a) == AuthCallable(a) /\ AuthLogout(a)

\* deleteItemAsync settled: on success the item is gone; the try
\* block and the catch block set the same state
AuthLogoutDeleted(a, ok) ==
    /\ authCalls[a].pc = "deleting"
    /\ sessionStore' = IF ok THEN NoCredential ELSE sessionStore
    /\ authState' = [authState EXCEPT !.isAuthenticated = FALSE,
                                      !.session = NoCredential,
                                      !.isLoading = FALSE]
    /\ authCalls' = [authCalls EXCEPT ![a].pc = "done"]
    /\ UNCHANGED <<discarded, facadeVars, storeVars, cryptoVars, roomVars, trustVars, restVars>>

\* the dropped facade's logout resumes after its await: stopClient(), client = null
DiscardedLogoutRevoked(c, ok) ==
    /\ c \in discarded
    /\ running' = running \ {c}
    /\ discarded' = discarded \ {c}
    /\ UNCHANGED <<authState, sessionStore, authCalls, client, cryptoOn, enableE2EE,
                   logins, logouts, sends, storeVars, cryptoVars, roomVars, trustVars, restVars>>

InitAuth ==
    /\ client = NoClient
    /\ running = {}
    /\ cryptoOn = {}
    /\ InitCallVars
    /\ InitStoreVars
    /\ InitCryptoVars
    /\ InitRoomVars
    /\ InitAuthCalls
    /\ sessionStore \in {NoCredential, PriorCredential}
    /\ InitTrustVars
    /\ InitRestVars

NextAuth ==
    \/ \E a \in AuthIds : AuthInitializeCall(a)
    \/ \E a \in AuthIds, p \in LoginIds, ok \in BOOLEAN : AuthInitializeRead(a, p, ok)
    \/ \E a \in AuthIds : AuthInitializeRestored(a)
    \/ \E a \in AuthIds, ok \in BOOLEAN : AuthInitializeCleared(a, ok)
    \/ \E a \in AuthIds, p \in LoginIds : AuthLoginCall(a, p)
    \/ \E a \in AuthIds : AuthLoginReturned(a)
    \/ \E a \in AuthIds, ok \in BOOLEAN : AuthLoginStored(a, ok)
    \/ \E a \in AuthIds : AuthLogoutCall(a)
    \/ \E a \in AuthIds, ok \in BOOLEAN : AuthLogoutDeleted(a, ok)
    \/ \E c \in LoginIds, ok \in BOOLEAN : DiscardedLogoutRevoked(c, ok)
    \/ \E p \in LoginIds, ok \in BOOLEAN : LoginAuthenticated(p, ok)
    \/ \E p \in LoginIds, ok \in BOOLEAN : CryptoInitialized(p, ok)
    \/ \E p \in LoginIds, ok \in BOOLEAN : StartClientDone(p, ok)
    \/ \E p \in LoginIds, st \in {"PREPARED", "ERROR"} : SyncEvent(p, st)
    \/ \E p \in LoginIds, ok \in BOOLEAN : UploadKeysDone(p, ok)

SpecAuth == InitAuth /\ [][NextAuth]_vars

(***************************************************************************)
(* C11: when the auth store's logout() completes, on every path, the       *)
(* credential store holds no session credential (so that a later           *)
(* initialize() finds nothing to restore).                                 *)
(***************************************************************************)
LogoutClearsCredential ==
    [][\A a \in AuthIds :
         (authCalls[a].pc = "deleting" /\ authCalls'[a].pc = "done")
         => sessionStore' = NoCredential]_vars

(***************************************************************************)
(* C13: a restoreSession whose token the server rejects terminates with a  *)
(* failure instead of waiting for the initial sync, and the initialize()   *)
(* that made it then ends with the stored credential removed,              *)
(* isAuthenticated false and isLoading false.                              *)
(***************************************************************************)
RejectedRestoreForcesReauth ==
    \A a \in AuthIds :
        authCalls[a].op = "initialize" /\ authCalls[a].p # 0 =>
            /\ logins[authCalls[a].p].pc # "hung"
            /\ (logins[authCalls[a].p].pc = "threw" /\ authCalls[a].pc \in {"done", "threw"})
               => /\ sessionStore = NoCredential
                  /\ ~authState.isAuthenticated
                  /\ ~authState.isLoading

(***************************************************************************)
(* C12: a successful login() makes the initialization steps in the order   *)
(* crypto initialization, device-key upload, sync start, and all three     *)
(* have happened when login() returns: the key upload is called while the  *)
(* call's client is not yet syncing, and the call returns from the upload  *)
(* with crypto enabled and the sync loop running.                          *)
(***************************************************************************)
EntersPc(p, pc) == logins[p].pc # pc /\ logins'[p].pc = pc

InitSequenceOrder ==
    [][\A p \in LoginIds :
         /\ EntersPc(p, "uploading") => p \notin running
         /\ EntersPc(p, "done") =>
               /\ logins[p].pc = "uploading"
               /\ p \in cryptoOn'
               /\ p \in running']_vars

(***************************************************************************)
(* C14: when crypto initialization fails during login / restoreSession,    *)
(* the session still starts: startClient is called, no device-key upload   *)
(* is attempted, the call returns once the client is PREPARED, and then    *)
(* isE2EEEnabled() is false and getDeviceFingerprint() is null.            *)
(***************************************************************************)
\* the step in which the call's initRustCrypto settles with a failure
CryptoFails(p) ==
    /\ logins[p].pc = "crypto"
    /\ logins'[p].pc # "crypto"
    /\ p \notin cryptoOn'

\* a call past a failed crypto initialization
CryptoFailedCall(p) ==
    /\ enableE2EE
    /\ logins[p].pc \in {"starting", "syncing"}
    /\ p \notin cryptoOn

CryptoFailureNonFatal ==
    [][\A p \in LoginIds :
         /\ CryptoFails(p) => (logins'[p].pc = "starting" /\ p \in running')
         /\ (CryptoFailedCall(p) /\ logins'[p].pc # logins[p].pc) =>
               /\ logins'[p].pc # "uploading"
               /\ logins[p].pc = "syncing" => logins'[p].pc \in {"done", "hung"}
               /\ logins'[p].pc = "done" =>
                     /\ ~isE2EEEnabled'
                     /\ \A k \in {"null", "ed25519"} : getDeviceFingerprint(k)' = "null"]_vars

\* a call whose crypto initialization failed has returned with its client syncing
CryptoFailedSessionWitness ==
    \E p \in LoginIds :
        /\ enableE2EE
        /\ logins[p].pc = "done"
        /\ p \notin cryptoOn
        /\ client = p
        /\ p \in running
        /\ ~isE2EEEnabled

(***************************************************************************)
(* C15: an inbound encrypted message event whose decryption fails is still *)
(* passed to the onMessage callback, as a Message with encrypted = true:   *)
(* every Timeline handler that resumes from decryptEventIfNeeded leaves    *)
(* its event in the store's list.                                          *)
(***************************************************************************)
UndecryptableDelivered ==
    [][\A e \in Events :
         decrypting'[e] < decrypting[e] =>
             \E i \in DOMAIN messages'[EventRoom(e)] :
                 /\ messages'[EventRoom(e)][i].id = e
                 /\ messages'[EventRoom(e)][i].encrypted]_vars

(***************************************************************************)
(* Room summaries: ClawChatClient.emitRoomUpdate and the chat store's      *)
(* onRoomUpdate listener.  SpecSummary: a joined client with one direct    *)
(* room, the store initialized (rooms = client.getRooms()).                *)
(***************************************************************************)
\* a RoomEvent.MyMembership or RoomEvent.Name event: emitRoomUpdate()
RoomUpdated ==
    /\ client # NoClient
    /\ client \in running
    /\ rooms' = getRooms
    /\ UNCHANGED <<timeline, decrypting, dupSeen, messages, isLoading, error, loading,
                   currentRoomId, isSending, facadeVars, cryptoVars, roomVars, otherVars>>

InitSummary ==
    /\ client = 1
    /\ running = {1}
    /\ cryptoOn \in {{}, {1}}
    /\ InitCallVars
    /\ InitCryptoVars
    /\ botCalls = [c \in BotCallIds |->
                     [pc |-> "idle", botUserId |-> "botA", seen |-> <<>>,
                      requested |-> FALSE, result |-> NoRoom]]
    /\ createRequests = [b \in Bots |-> 0]
    /\ serverRooms = {}
    /\ sdkRooms = <<[roomId |-> 1, joined |-> {Me, "botA"}, invited |-> "none"]>>
    /\ timeline = [r \in AllRoomIds |-> <<>>]
    /\ decrypting = [e \in Events |-> 0]
    /\ dupSeen = FALSE
    /\ messages = [r \in AllRoomIds |-> <<>>]
    /\ isLoading = FALSE
    /\ error = "null"
    /\ loading = {}
    /\ rooms = MapRooms(sdkRooms)
    /\ isSending = FALSE
    /\ currentRoomId = NoRoom
    /\ InitOtherVars

NextSummary ==
    \/ \E e \in Events, b \in BOOLEAN : TimelineEvent(e, b)
    \/ \E e \in Events, ok \in BOOLEAN : DecryptSettled(e, ok)
    \/ RoomUpdated

SpecSummary == InitSummary /\ [][NextSummary]_vars

(***************************************************************************)
(* C20: whenever a new message event for room R has been processed (its    *)
(* message reached the store), the store's rooms snapshot has been         *)
(* recomputed, so that R's lastMessage is the last event of R's timeline.  *)
(***************************************************************************)
SummaryRecomputed ==
    [][\A r \in RoomIds :
         messages'[r] # messages[r] =>
             \A i \in DOMAIN rooms' :
                 rooms'[i].id = r => rooms'[i].lastMessage = getLastLiveEvent(r)']_vars

(***************************************************************************)
(* CryptoManager: device trust, key backup, device identity across         *)
(* restarts.  SpecTrust: initialize, verifyDevice, exportKeys, importKeys  *)
(* calls in any interleaving, and restarts of the process.                 *)
(***************************************************************************)
\* the devices of one bot
TrustKeys == {TrustKey("botA", d) : d \in DeviceIds}

\* the mutant: the keys are kept in an array, every call pushes
SetAddPush(list, key) == Append(list, key)

\* Set.prototype.add: a key the set holds stays where it is, a new key goes last
SetAdd(list, key) == IF key \in Range(list) THEN list ELSE Append(list, key)

\* verifyDevice(userId, deviceId) when its write succeeds: the set after add(), and
\* Array.from(the set) written to the store
verifyDevice(trust, key) ==
    [verifiedDevices |-> SetAdd(trust.verifiedDevices, key),
     verifiedStore |-> SetAdd(trust.verifiedDevices, key)]

TrustState == [verifiedDevices |-> verifiedDevices, verifiedStore |-> verifiedStore]

\* this.verifiedDevices.add(key); await SecureStore.setItemAsync(..., Array.from(set))
VerifyDeviceCall(v, key) ==
    /\ verifyCalls[v].pc = "idle"
    /\ \A o \in 1..(v - 1) : verifyCalls[o].pc # "idle"
    /\ verifiedDevices' = verifyDevice(TrustState, key).verifiedDevices
    /\ verifyCalls' = [verifyCalls EXCEPT ![v] =
                         [pc |-> "storing", key |-> key,
                          list |-> verifyDevice(TrustState, key).verifiedStore]]
    /\ UNCHANGED <<verifiedStore, backup, importCall, restarted,
                   cryptoVars, storeVars, facadeVars, roomVars, authVars, restVars>>

\* setItemAsync settled: the list is written and verifyDevice returns, or it throws
VerifyDeviceStored(v, ok) ==
    /\ verifyCalls[v].pc = "storing"
    /\ verifiedStore' = IF ok THEN verifyCalls[v].list ELSE verifiedStore
    /\ verifyCalls' = [verifyCalls EXCEPT ![v].pc = IF ok THEN "done" ELSE "threw",
                                          ![v].list = <<>>]
    /\ UNCHANGED <<verifiedDevices, backup, importCall, restarted,
                   cryptoVars, storeVars, facadeVars, roomVars, authVars, restVars>>

isDeviceVerified(key) == key \in Range(verifiedDevices)

\* exportKeys(): throws without device keys; otherwise the backup holds the device
\* keys, the room sessions and Array.from(verifiedDevices)
ExportKeys ==
    /\ deviceKeys # NoKeys
    /\ backup' = {[deviceKeys |-> deviceKeys, sessionKeys |-> sessionKeys,
                   verifiedDevices |-> verifiedDevices]}
    /\ UNCHANGED <<verifiedDevices, verifiedStore, verifyCalls, importCall, restarted,
                   cryptoVars, storeVars, facadeVars, roomVars, authVars, restVars>>

\* importKeys(backup): the three fields are replaced by the backup's;
\* await SecureStore.setItemAsync(CRYPTO_STORE_KEY, deviceKeys)
ImportKeysCall ==
    \E b \in backup :
        /\ importCall.pc = "idle"
        /\ deviceKeys' = b.deviceKeys
        /\ sessionKeys' = b.sessionKeys
        /\ verifiedDevices' = b.verifiedDevices
        /\ importCall' = [pc |-> "storing", keys |-> b.deviceKeys]
        /\ UNCHANGED <<secureStore, cryptoInit, encCalls, callLog,
                       verifiedStore, verifyCalls, backup, restarted,
                       storeVars, facadeVars, roomVars, authVars, restVars>>

\* setItemAsync settled: the device keys are written, or importKeys throws
ImportKeysStored(ok) ==
    /\ importCall.pc = "storing"
    /\ secureStore' = IF ok THEN importCall.keys ELSE secureStore
    /\ importCall' = [pc |-> "idle", keys |-> NoKeys]
    /\ UNCHANGED <<deviceKeys, cryptoInit, sessionKeys, encCalls, callLog,
                   verifiedDevices, verifiedStore, verifyCalls, backup, restarted,
                   storeVars, facadeVars, roomVars, authVars, restVars>>

TrustCallInFlight ==
    \/ \E i \in IdentityInitIds : cryptoInit[i].pc \notin {"idle", "done"}
    \/ \E v \in VerifyIds : verifyCalls[v].pc = "storing"
    \/ importCall.pc # "idle"

\* the app is closed while no call is in flight and opened again: the module is
\* loaded anew, getCryptoManager() makes a fresh CryptoManager; SecureStore and the
\* backup the user holds are what they were
Restart ==
    /\ ~TrustCallInFlight
    /\ restarted' = TRUE
    /\ deviceKeys' = NoKeys
    /\ sessionKeys' = [r \in RoomIds |-> NoSession]
    /\ verifiedDevices' = <<>>
    /\ cryptoInit' = [i \in IdentityInitIds |-> [pc |-> "idle", keys |-> NoKeys]]
    /\ verifyCalls' = [v \in VerifyIds |-> [pc |-> "idle", key |-> <<>>, list |-> <<>>]]
    /\ UNCHANGED <<secureStore, encCalls, callLog, verifiedStore, backup, importCall,
                   storeVars, facadeVars, roomVars, authVars, restVars>>

InitTrust ==
    /\ client = NoClient
    /\ running = {}
    /\ cryptoOn = {}
    /\ InitCallVars
    /\ InitStoreVars
    /\ InitCryptoVars
    /\ InitRoomVars
    /\ InitOtherVars

\* initialize() called while no other CryptoManager call is in flight
InitializeCallAlone(i) ==
    /\ ~TrustCallInFlight
    /\ InitializeCall(i)

NextTrust ==
    \/ \E i \in InitIds : InitializeCallAlone(i)
    \/ \E i \in InitIds, d \in DeviceIds : InitializeLoaded(i, d)
    \/ \E i \in InitIds : InitializeGenerated(i)
    \/ \E i \in InitIds : InitializeStored(i)
    \/ \E v \in VerifyIds, key \in TrustKeys : VerifyDeviceCall(v, key)
    \/ \E v \in VerifyIds, ok \in BOOLEAN : VerifyDeviceStored(v, ok)
    \/ ExportKeys
    \/ ImportKeysCall
    \/ \E ok \in BOOLEAN : ImportKeysStored(ok)
    \/ Restart

\* the device identity: initialize calls that may overlap, backups, restarts
NextIdentity ==
    \/ \E i \in IdentityInitIds : InitializeCall(i)
    \/ \E i \in IdentityInitIds, d \in DeviceIds : InitializeLoaded(i, d)
    \/ \E i \in IdentityInitIds : InitializeGenerated(i)
    \/ \E i \in IdentityInitIds : InitializeStored(i)
    \/ ExportKeys
    \/ ImportKeysCall
    \/ \E ok \in BOOLEAN : ImportKeysStored(ok)
    \/ Restart

SpecTrust == InitTrust /\ [][NextTrust]_vars
SpecIdentity == InitTrust /\ [][NextIdentity]_vars

(***************************************************************************)
(* C16: verifyDevice is idempotent: in every trust state and for every     *)
(* (userId, deviceId), the in-memory set and the persisted list after two  *)
(* completed calls are those after one.                                    *)
(***************************************************************************)
VerifyDeviceIdempotent ==
    \A key \in TrustKeys :
        verifyDevice(verifyDevice(TrustState, key), key) = verifyDevice(TrustState, key)

\* two calls for one device have completed and the device is listed once
VerifiedTwiceWitness ==
    \E v \in VerifyIds, w \in VerifyIds :
        /\ v < w
        /\ verifyCalls[v].pc = "done"
        /\ verifyCalls[w].pc = "done"
        /\ verifyCalls[v].key = verifyCalls[w].key
        /\ verifiedStore = verifiedDevices
        /\ Cardinality({i \in DOMAIN verifiedDevices :
                           verifiedDevices[i] = verifyCalls[v].key}) = 1

(***************************************************************************)
(* C17: trust is never un-marked: a device whose verifyDevice call has     *)
(* completed in this CryptoManager is reported by isDeviceVerified.        *)
(***************************************************************************)
TrustNeverUnmarked ==
    \A v \in VerifyIds :
        verifyCalls[v].pc = "done" => isDeviceVerified(verifyCalls[v].key)

(***************************************************************************)
(* C18: device trust persists across sessions: after a restart and         *)
(* initialize(), every device of the persisted trust list is reported by   *)
(* isDeviceVerified.                                                       *)
(***************************************************************************)
TrustSurvivesRestart ==
    (restarted /\ \E i \in IdentityInitIds : cryptoInit[i].pc = "done") =>
        \A key \in Range(verifiedStore) : isDeviceVerified(key)

(***************************************************************************)
(* C19: the device identity is created once per installation: every        *)
(* initialize() call that has returned, returned the stored identity.      *)
(***************************************************************************)
IdentityCreatedOnce ==
    \A i \in IdentityInitIds :
        cryptoInit[i].pc = "done" => cryptoInit[i].keys = secureStore

(***************************************************************************)
(* C21: at most one sync polling loop runs per process: across any         *)
(* sequence of login, restoreSession and logout calls on the facade, no    *)
(* two started SDK clients are syncing at the same time.                   *)
(***************************************************************************)
AtMostOneSyncLoop == Cardinality(running) <= 1

(***************************************************************************)
(* SpecAuthRace: the auth store's logout() called while its login() is     *)
(* awaiting the initial sync of the client it created.  E2EE is disabled,  *)
(* so that the login in flight on the dropped facade does not read         *)
(* this.client again after the sync event.                                 *)
(***************************************************************************)
\* logout() while a login() call awaits client.login, whose client is syncing
AuthLogoutDuringSync(a) ==
    /\ authCalls[a].pc = "idle"
    /\ \A o \in 1..(a - 1) : authCalls[o].pc # "idle"
    /\ \E b \in AuthIds :
           /\ authCalls[b].pc = "login"
           /\ logins[authCalls[b].p].pc = "syncing"
           /\ logins[authCalls[b].p].on = client
           /\ \A o \in AuthIds \ {b} : authCalls[o].pc \in {"idle", "done", "threw"}
    /\ AuthLogout(a)

InitAuthRace ==
    /\ client = NoClient
    /\ running = {}
    /\ cryptoOn = {}
    /\ enableE2EE = FALSE
    /\ logins = [p \in LoginIds |-> [pc |-> "idle", on |-> NoClient]]
    /\ logouts = [q \in LogoutIds |-> "idle"]
    /\ sends = [s \in SendIds |->
                  [pc |-> "idle", afterLogout |-> FALSE, requests |-> 0, uploads |-> 0]]
    /\ InitStoreVars
    /\ InitCryptoVars
    /\ InitRoomVars
    /\ InitAuthCalls
    /\ sessionStore \in {NoCredential, PriorCredential}
    /\ InitTrustVars
    /\ InitRestVars

NextAuthRace ==
    \/ \E a \in AuthIds, p \in LoginIds : AuthLoginCall(a, p)
    \/ \E p \in LoginIds, ok \in BOOLEAN : LoginAuthenticated(p, ok)
    \/ \E p \in LoginIds, ok \in BOOLEAN : StartClientDone(p, ok)
    \/ \E p \in LoginIds, st \in {"PREPARED", "ERROR"} : SyncEvent(p, st)
    \/ \E a \in AuthIds : AuthLoginReturned(a)
    \/ \E a \in AuthIds, ok \in BOOLEAN : AuthLoginStored(a, ok)
    \/ \E a \in AuthIds : AuthLogoutDuringSync(a)
    \/ \E a \in AuthIds, ok \in BOOLEAN : AuthLogoutDeleted(a, ok)
    \/ \E c \in LoginIds, ok \in BOOLEAN : DiscardedLogoutRevoked(c, ok)

SpecAuthRace == InitAuthRace /\ [][NextAuthRace]_vars

AuthSettled(a) == authCalls[a].pc \in {"done", "threw"}

(***************************************************************************)
(* C22: logout() issued while login is in flight never leaves the session  *)
(* half-initialized: once the login, the logout and the facade's own       *)
(* logout have settled, the facade holds no client, no sync loop runs and  *)
(* the auth store is not authenticated.                                    *)
(***************************************************************************)
LogoutDuringLoginSettles ==
    \A a \in AuthIds, b \in AuthIds :
        (/\ b = a + 1
         /\ authCalls[a].op = "login" /\ AuthSettled(a)
         /\ authCalls[b].op = "logout" /\ AuthSettled(b)
         /\ \A o \in AuthIds : o > b => authCalls[o].pc = "idle"
         /\ discarded = {})
        => (client = NoClient /\ running = {} /\ ~authState.isAuthenticated)

(***************************************************************************)
(* C26: a login or restoreSession that fails after the SDK client has been *)
(* created leaves the facade with no active session: when the only call    *)
(* made has thrown, the facade's client is null and no sync loop runs.     *)
(***************************************************************************)
FailedLoginLeavesNoSession ==
    (/\ logins[1].pc = "threw"
     /\ \A p \in LoginIds \ {1} : logins[p].pc = "idle"
     /\ \A q \in LogoutIds : logouts[q] = "idle")
    => (client = NoClient /\ running = {})

(***************************************************************************)
(* SpecSync: the session calls of SpecSession, and the sync states a       *)
(* client emits after the listener of initializeClient has been used up.   *)
(***************************************************************************)
NextSync ==
    \/ \E p \in LoginIds : LoginCall(p)
    \/ \E p \in LoginIds, ok \in BOOLEAN : LoginAuthenticated(p, ok)
    \/ \E p \in LoginIds : RestoreSessionCall(p)
    \/ \E p \in LoginIds, ok \in BOOLEAN : CryptoInitialized(p, ok)
    \/ \E p \in LoginIds, ok \in BOOLEAN : StartClientDone(p, ok)
    \/ \E p \in LoginIds, st \in {"PREPARED", "ERROR"} : SyncEvent(p, st)
    \/ \E p \in LoginIds : SyncPreparedUnheard(p)
    \/ \E p \in LoginIds, ok \in BOOLEAN : UploadKeysDone(p, ok)
    \/ \E q \in LogoutIds : LogoutCall(q)
    \/ \E q \in LogoutIds, ok \in BOOLEAN : LogoutRevoked(q, ok)

SpecSync == InitFacade /\ [][NextSync]_vars

(***************************************************************************)
(* C27: login / restoreSession returns whenever the sync of its client     *)
(* reaches PREPARED, whatever states were emitted before: no call is left  *)
(* waiting after its client has emitted PREPARED.                          *)
(***************************************************************************)
PreparedLoginReturns == \A p \in LoginIds : logins[p].pc # "missed"

(***************************************************************************)
(* C28: a message the onMessage listener appended to a room's list is not  *)
(* removed by a loadMessages call that started before the message arrived  *)
(* and finishes after it: when a load that awaited a decryption completes, *)
(* every message of the room's list is still in the list.                  *)
(***************************************************************************)
\* getMessages of this load awaited decryptEventIfNeeded for some event
LoadAwaitedDecrypt(l) ==
    /\ client \in cryptoOn
    /\ \E i \in DOMAIN l.result : l.result[i].encrypted

MessageSurvivesLoad ==
    [][\A l \in loading :
         (l \notin loading' /\ LoadAwaitedDecrypt(l)) =>
             \A i \in DOMAIN messages[l.roomId] :
                 \E j \in DOMAIN messages'[l.roomId] :
                     messages'[l.roomId][j].id = messages[l.roomId][i].id]_vars

(***************************************************************************)
(* C24: in every state of the auth store, isAuthenticated is true if and   *)
(* only if session is non-null, and the session of an authenticated store  *)
(* is the credential a completed login or initialize obtained.             *)
(***************************************************************************)
AuthFlagMatchesSession ==
    /\ authState.isAuthenticated <=> authState.session # NoCredential
    /\ authState.isAuthenticated =>
           \E a \in AuthIds :
               /\ authCalls[a].pc = "done"
               /\ authCalls[a].op \in {"login", "initialize"}
               /\ authCalls[a].cred = authState.session

\* a login succeeded, a later login failed, and the store is still authenticated
AuthenticatedAfterFailedLoginWitness ==
    \E a \in AuthIds, b \in AuthIds :
        /\ a < b
        /\ authCalls[a].op = "login" /\ authCalls[a].pc = "done"
        /\ authCalls[b].op = "login" /\ authCalls[b].pc = "threw"
        /\ authState.isAuthenticated
        /\ authState.session = authCalls[a].cred

(***************************************************************************)
(* SpecRotation: a sequence of encryptMessage and verifyDevice calls on    *)
(* one CryptoManager, each awaited before the next is made.                *)
(***************************************************************************)
RotationCallInFlight ==
    \/ \E c \in CallIds : InFlight(c)
    \/ TrustCallInFlight

\* initialize() is awaited before the first send or verification
InitializeCallFirst(i) ==
    /\ ~RotationCallInFlight
    /\ \A c \in CallIds : encCalls[c].pc = "idle"
    /\ \A v \in VerifyIds : verifyCalls[v].pc = "idle"
    /\ InitializeCall(i)

EncryptMessageCallAlone(c, roomId, recipientKeys) ==
    /\ ~RotationCallInFlight
    /\ EncryptMessageCall(c, roomId, recipientKeys)

VerifyDeviceCallAlone(v, key) ==
    /\ ~RotationCallInFlight
    /\ VerifyDeviceCall(v, key)

NextRotation ==
    \/ \E i \in InitIds : InitializeCallFirst(i)
    \/ \E i \in InitIds, d \in DeviceIds : InitializeLoaded(i, d)
    \/ \E i \in InitIds : InitializeGenerated(i)
    \/ \E i \in InitIds : InitializeStored(i)
    \/ \E c \in CallIds, r \in RoomIds, k \in SUBSET Devices :
           EncryptMessageCallAlone(c, r, k)
    \/ \E c \in CallIds : ShareSessionKeyDone(c)
    \/ \E v \in VerifyIds, key \in TrustKeys : VerifyDeviceCallAlone(v, key)
    \/ \E v \in VerifyIds, ok \in BOOLEAN : VerifyDeviceStored(v, ok)

SpecRotation == InitCrypto /\ [][NextRotation]_vars

(***************************************************************************)
(* C25: a room's group-encryption session is never rotated: once a session *)
(* id is recorded for room R, no step of a send or of verifyDevice changes *)
(* it, and every later step logged for R carries that session id and is    *)
(* not a new key distribution.                                             *)
(***************************************************************************)
SessionNeverRotated ==
    [][\A r \in RoomIds :
         sessionKeys[r] # NoSession =>
             /\ sessionKeys'[r] = sessionKeys[r]
             /\ \A i \in DOMAIN callLog' \ DOMAIN callLog :
                    callLog'[i].roomId = r =>
                        /\ callLog'[i].op # "share"
                        /\ callLog'[i].sessionId = sessionKeys[r]]_vars

\* two sends to one room, a device verified, the second send reused the session
SessionReusedWitness ==
    \E c \in CallIds, e \in CallIds :
        /\ c < e
        /\ encCalls[c].pc = "done" /\ encCalls[c].created
        /\ encCalls[e].pc = "done" /\ ~encCalls[e].created
        /\ encCalls[e].roomId = encCalls[c].roomId
        /\ encCalls[e].sessionId = encCalls[c].sessionId
        /\ \E v \in VerifyIds : verifyCalls[v].pc = "done"

(***************************************************************************)
(* SpecShareFail: the sends of SpecCryptoSeq where the promise of          *)
(* shareSessionKey may be rejected.                                        *)
(***************************************************************************)
\* shareSessionKey rejected: the await in encryptMessage throws, no payload is built
ShareSessionKeyFailed(c) ==
    /\ encCalls[c].pc = "sharing"
    /\ encCalls' = [encCalls EXCEPT ![c].pc = "threw"]
    /\ UNCHANGED <<secureStore, deviceKeys, cryptoInit, sessionKeys, callLog,
                   storeVars, facadeVars, roomVars, otherVars>>

NextShareFail ==
    \/ \E i \in InitIds : InitializeCall(i)
    \/ \E i \in InitIds, d \in DeviceIds : InitializeLoaded(i, d)
    \/ \E i \in InitIds : InitializeGenerated(i)
    \/ \E i \in InitIds : InitializeStored(i)
    \/ \E c \in CallIds, r \in RoomIds, k \in SUBSET Devices :
           EncryptMessageCallSeq(c, r, k)
    \/ \E c \in CallIds : ShareSessionKeyDone(c)
    \/ \E c \in CallIds : ShareSessionKeyFailed(c)

SpecShareFail == InitCrypto /\ [][NextShareFail]_vars

(***************************************************************************)
(* C29: when the key distribution of encryptMessage fails for a room with  *)
(* no prior session, the call produces no ciphertext and the room stays    *)
(* without a recorded session.                                             *)
(***************************************************************************)
FailedShareLeavesUnestablished ==
    \A c \in CallIds :
        (encCalls[c].pc = "threw" /\ encCalls[c].created) =>
            /\ sessionKeys[encCalls[c].roomId] # encCalls[c].sessionId
            /\ LogIdx("ciphertext", c) = {}

(***************************************************************************)
(* useSearchStore: setQuery, search, clearSearch.  SpecSearch: a joined    *)
(* client with crypto enabled and one room that holds the encrypted event  *)
(* 1 and the event 2, so that getMessages awaits a decryption.             *)
(***************************************************************************)
\* what the user can type
Queries == {<<>>, <<" ">>, <<"a">>, <<"A", "b">>, <<"c", "d">>}

\* the text of the message events
Body(e) == IF e = 1 THEN <<"a", "b", "c">> ELSE <<"c", "d">>

\* String.prototype.trim
RECURSIVE Trim(_)
Trim(q) ==
    IF q = <<>> THEN q
    ELSE IF Head(q) = " " THEN Trim(Tail(q))
    ELSE IF q[Len(q)] = " " THEN Trim(SubSeq(q, 1, Len(q) - 1))
    ELSE q

\* String.prototype.toLowerCase
ToLowerCase(q) == [i \in DOMAIN q |-> IF q[i] = "A" THEN "a" ELSE q[i]]

\* String.prototype.includes
Includes(body, q) ==
    \E i \in 1..(Len(body) - Len(q) + 1) : SubSeq(body, i, i + Len(q) - 1) = q

\* the matching messages of one room, in the order of getMessages
RECURSIVE MatchesOf(_, _)
MatchesOf(msgs, q) ==
    IF msgs = <<>> THEN <<>>
    ELSE (IF Includes(ToLowerCase(Body(Head(msgs).id)), q)
          THEN <<[message |-> Head(msgs), roomId |-> Head(msgs).roomId]>>
          ELSE <<>>) \o MatchesOf(Tail(msgs), q)

\* for (const room of rooms) { ... }
RECURSIVE RoomsMatches(_, _)
RoomsMatches(rs, q) ==
    IF rs = <<>> THEN <<>>
    ELSE MatchesOf(getMessages(Head(rs).id, LoadLimit), q) \o RoomsMatches(Tail(rs), q)

\* one result put in its place in a list sorted newest first
RECURSIVE InsertNewestFirst(_, _)
InsertNewestFirst(sorted, x) ==
    IF sorted = <<>> THEN <<x>>
    ELSE IF Head(sorted).message.timestamp >= x.message.timestamp
         THEN <<Head(sorted)>> \o InsertNewestFirst(Tail(sorted), x)
         ELSE <<x>> \o sorted

\* results.sort((a, b) => b.message.timestamp - a.message.timestamp)
RECURSIVE SortNewestFirst(_)
SortNewestFirst(rs) ==
    IF rs = <<>> THEN <<>>
    ELSE InsertNewestFirst(SortNewestFirst(SubSeq(rs, 1, Len(rs) - 1)), rs[Len(rs)])

\* the results search(query) sets for the trimmed, lower-cased query
SearchResults(q) == SortNewestFirst(RoomsMatches(getRooms, q))

\* clearSearch()
Cleared ==
    [query |-> <<>>, results |-> <<>>, isSearching |-> FALSE, hasSearched |-> FALSE,
     error |-> "null"]

\* search(query) up to its first await; without rooms there is no await
Search(k, query) ==
    /\ searches[k].pc = "idle"
    /\ \A o \in 1..(k - 1) : searches[o].pc # "idle"
    /\ IF getRooms = <<>>
       THEN /\ searchState' = [searchState EXCEPT !.query = query, !.results = <<>>,
                                                  !.isSearching = FALSE,
                                                  !.hasSearched = TRUE, !.error = "null"]
            /\ searches' = [searches EXCEPT ![k] =
                              [pc |-> "done", query |-> ToLowerCase(Trim(query))]]
       ELSE /\ searchState' = [searchState EXCEPT !.query = query, !.isSearching = TRUE,
                                                  !.error = "null"]
            /\ searches' = [searches EXCEPT ![k] =
                              [pc |-> "searching", query |-> ToLowerCase(Trim(query))]]

\* setQuery(query): an empty query clears, as the clear button does
SetQuery(query) ==
    /\ IF Len(Trim(query)) >= 2
       THEN \E k \in SearchIds : Search(k, query)
       ELSE IF Len(Trim(query)) = 0
            THEN /\ searchState' = Cleared
                 /\ UNCHANGED searches
            ELSE /\ searchState' = [searchState EXCEPT !.query = query]
                 /\ UNCHANGED searches
    /\ UNCHANGED <<botVars, storeVars, facadeVars, cryptoVars, roomVars, authVars, trustVars>>

\* the last getMessages of a search settled: the results are sorted and set, or the
\* catch block records the error
SearchSettled(k, ok) ==
    /\ searches[k].pc = "searching"
    /\ IF ok
       THEN /\ searchState' = [searchState EXCEPT
                                  !.results = SearchResults(searches[k].query),
                                  !.isSearching = FALSE, !.hasSearched = TRUE]
            /\ searches' = [searches EXCEPT ![k].pc = "done"]
       ELSE /\ searchState' = [searchState EXCEPT !.isSearching = FALSE,
                                                  !.hasSearched = TRUE,
                                                  !.error = "Search failed"]
            /\ searches' = [searches EXCEPT ![k].pc = "failed"]
    /\ UNCHANGED <<botVars, storeVars, facadeVars, cryptoVars, roomVars, authVars, trustVars>>

InitSearch ==
    /\ client = 1
    /\ running = {1}
    /\ cryptoOn = {1}
    /\ InitCallVars
    /\ InitCryptoVars
    /\ botCalls = [c \in BotCallIds |->
                     [pc |-> "idle", botUserId |-> "botA", seen |-> <<>>,
                      requested |-> FALSE, result |-> NoRoom]]
    /\ createRequests = [b \in Bots |-> 0]
    /\ serverRooms = {}
    /\ sdkRooms = <<[roomId |-> 1, joined |-> {Me, "botA"}, invited |-> "none"]>>
    /\ timeline = [r \in AllRoomIds |-> IF r = 1 THEN <<1, 2>> ELSE <<>>]
    /\ decrypting = [e \in Events |-> 0]
    /\ dupSeen = FALSE
    /\ messages = [r \in AllRoomIds |-> <<>>]
    /\ isLoading = FALSE
    /\ error = "null"
    /\ loading = {}
    /\ rooms = MapRooms(sdkRooms)
    /\ isSending = FALSE
    /\ currentRoomId = NoRoom
    /\ InitOtherVars

NextSearch ==
    \/ \E q \in Queries : SetQuery(q)
    \/ \E k \in SearchIds, ok \in BOOLEAN : SearchSettled(k, ok)

SpecSearch == InitSearch /\ [][NextSearch]_vars

(***************************************************************************)
(* C30: once all searches in flight have settled (none of them failed),    *)
(* the results are those of the most recent setQuery value, and after a    *)
(* clear the results are empty and hasSearched is false.                   *)
(***************************************************************************)
SearchResultsCurrent ==
    (\A k \in SearchIds : searches[k].pc \in {"idle", "done"}) =>
        /\ Len(Trim(searchState.query)) >= 2 =>
               searchState.results = SearchResults(ToLowerCase(Trim(searchState.query)))
        /\ Len(Trim(searchState.query)) = 0 =>
               (searchState.results = <<>> /\ ~searchState.hasSearched)

(***************************************************************************)
(* The bots' conversation memory (handleMessage of the simple bot and of   *)
(* the E2EE bot; the two bodies are the same).  conversations maps a room  *)
(* to an array; arrays have identity, since push changes the array the map *)
(* holds while slice makes a new one.  A turn is [role, n]: n is the       *)
(* handler whose message it is or answers, 0 for turns of earlier          *)
(* messages.                                                               *)
(***************************************************************************)
UserTurn(h) == [role |-> "user", n |-> h]
AssistantTurn(h) == [role |-> "assistant", n |-> h]

KeepLastOff(history) ==
    IF Len(history) > HistoryLimit + 1 THEN SliceLast(history, HistoryLimit) ELSE history

\* if (history.length > 20) history = history.slice(-20)
KeepLast(history) ==
    IF Len(history) > HistoryLimit THEN SliceLast(history, HistoryLimit) ELSE history

\* handleMessage up to the await of anthropic.messages.create: the user's
\* turn is pushed onto the array of the room (a new array if the room has
\* none), the array is replaced by its last turns if it is too long, and the
\* request is made with it
BotHandleMessage(h, room) ==
    /\ handlers[h].pc = "idle"
    /\ \A o \in 1..(h - 1) : handlers[o].pc # "idle"
    /\ LET stored == conversations[room]
           fresh == stored = NoArray
           got == IF fresh THEN nextArray ELSE stored
           made == IF fresh THEN nextArray + 1 ELSE nextArray
           pushed == Append(IF fresh THEN <<>> ELSE arrays[stored], UserTurn(h))
           kept == KeepLast(pushed)
           sliced == kept # pushed
           history == IF sliced THEN made ELSE got
       IN  /\ arrays' = [a \in ArrayIds |->
                           IF a = history THEN kept
                           ELSE IF a = got THEN pushed
                           ELSE arrays[a]]
           /\ nextArray' = IF sliced THEN made + 1 ELSE made
           /\ handlers' = [handlers EXCEPT ![h] =
                             [pc |-> "calling", roomId |-> room,
                              history |-> history, request |-> kept]]
    /\ UNCHANGED conversations
    /\ UNCHANGED <<searchVars, storeVars, facadeVars, cryptoVars, roomVars, authVars, trustVars>>

\* the request settles: on a response the assistant's turn is pushed onto
\* the handler's array and the array is stored for the room; on an error the
\* catch block stores nothing
BotResponse(h, ok) ==
    /\ handlers[h].pc = "calling"
    /\ IF ok
       THEN /\ arrays' = [arrays EXCEPT ![handlers[h].history] =
                            Append(@, AssistantTurn(h))]
            /\ conversations' = [conversations EXCEPT ![handlers[h].roomId] =
                                   handlers[h].history]
            /\ handlers' = [handlers EXCEPT ![h].pc = "done"]
       ELSE /\ handlers' = [handlers EXCEPT ![h].pc = "failed"]
            /\ UNCHANGED <<arrays, conversations>>
    /\ UNCHANGED nextArray
    /\ UNCHANGED <<searchVars, storeVars, facadeVars, cryptoVars, roomVars, authVars, trustVars>>

\* a history the bot holds after earlier messages were answered: user and
\* assistant turns alternate and the last one is the assistant's
EarlierHistory(len) ==
    [i \in 1..len |-> [role |-> IF (len - i) % 2 = 0 THEN "assistant" ELSE "user",
                       n |-> 0]]

\* the lengths of the history held for room 1 at the start: none, short,
\* and the lengths around the limit that answered messages lead to
EarlierLengths == {0, 2, HistoryLimit - 2, HistoryLimit, HistoryLimit + 1}

InitBot ==
    /\ client = 1
    /\ running = {1}
    /\ cryptoOn = {1}
    /\ InitCallVars
    /\ InitCryptoVars
    /\ botCalls = [c \in BotCallIds |->
                     [pc |-> "idle", botUserId |-> "botA", seen |-> <<>>,
                      requested |-> FALSE, result |-> NoRoom]]
    /\ createRequests = [b \in Bots |-> 0]
    /\ serverRooms = {}
    /\ sdkRooms = <<>>
    /\ timeline = [r \in AllRoomIds |-> <<>>]
    /\ decrypting = [e \in Events |-> 0]
    /\ dupSeen = FALSE
    /\ messages = [r \in AllRoomIds |-> <<>>]
    /\ isLoading = FALSE
    /\ error = "null"
    /\ loading = {}
    /\ rooms = MapRooms(sdkRooms)
    /\ isSending = FALSE
    /\ currentRoomId = NoRoom
    /\ InitAuthVars
    /\ InitTrustVars
    /\ InitSearchVars
    /\ \E len \in EarlierLengths :
         /\ conversations = [r \in RoomIds |-> IF r = 1 /\ len > 0 THEN 1 ELSE NoArray]
         /\ arrays = [a \in ArrayIds |-> IF a = 1 THEN EarlierHistory(len) ELSE <<>>]
         /\ nextArray = IF len > 0 THEN 2 ELSE 1
    /\ handlers = [h \in HandlerIds |->
                     [pc |-> "idle", roomId |-> 1, history |-> NoArray, request |-> <<>>]]

NextBot ==
    \/ \E h \in HandlerIds, room \in RoomIds : BotHandleMessage(h, room)
    \/ \E h \in HandlerIds, ok \in BOOLEAN : BotResponse(h, ok)

SpecBot == InitBot /\ [][NextBot]_vars

====
